---- MODULE Spec2Model ----
(***************************************************************************)
(* Model of the Research Discovery & Synthesis pipeline of DataEngineX:    *)
(* IntelligentArxivService (app/services/intelligent_arxiv_service.py)     *)
(* with the ArxivService.search and LlamaClient.generate_response calls it *)
(* makes, and the POST /api/intelligent/search endpoint that calls it      *)
(* (app/controllers/intelligent_search_controller.py).                     *)
(*                                                                         *)
(* Python values are modelled as follows.                                  *)
(*   str       a sequence of one-character strings (so that split, lower,  *)
(*             `in` and replace are computed character by character);      *)
(*             labels that the code only copies are TLA+ strings           *)
(*   dict      a record; `k in d` is  k \in DOMAIN d                       *)
(*   list      a sequence                                                  *)
(*   JSON text returned by the LLM, once parsed: a tagged value            *)
(*             [t |-> type, v |-> payload]                                 *)
(*   a raise   the pair [raised |-> TRUE, exc |-> exception type]          *)
(***************************************************************************)
EXTENDS Integers, Sequences, FiniteSets, TLC

VARIABLES
    pc,                \* position of intelligent_search
    request,           \* IntelligentSearchRequest
    strategy_llm,      \* what generate_response returned for the strategy prompt
    query_strategies,  \* value returned by _generate_query_strategies
    tasks,             \* the search_with_strategy coroutines handed to gather
    finished,          \* order in which the coroutines completed
    all_papers,        \* value returned by _execute_multi_strategy_search
    rank_llm,          \* what generate_response returned for the ranking prompt
    ranked_papers,     \* first component of _analyze_and_rank_papers' result
    insights,          \* second component of _analyze_and_rank_papers' result
    sessions,          \* rows of the intelligent_search_sessions table
    search_response,   \* the IntelligentSearchResponse returned, if any
    exception,         \* exception that left intelligent_search, or "none"
    calls,             \* outcomes of the chat-completions calls and of the inserts
    cancelled_at,      \* position at which the task was cancelled, or "none"
    doc_pc,            \* position of the call that builds an LLM context
    doc_request,       \* the request the context is built for
    documents,         \* the papers handed to the context builder
    papers_with_content,  \* value returned by _get_papers_full_content
    contexts,          \* the context strings built so far, one per call
    llm_client,        \* whether the LlamaClient has an API key
    llm_prompt,        \* the prompt handed to generate_response
    llm_api,           \* what the chat-completions call does when it is made
    llm_result,        \* what generate_response returned or raised, if called
    kb_papers,         \* the papers handed to _generate_fallback_connections
    connections_graph, \* the nodes/edges/stats it returned, if called
    http_endpoint,     \* the endpoint a request was sent to
    http_env,          \* what the storage backend holds and does for that request
    http_response      \* the status the handler decided on and the one delivered

\* the state of intelligent_search
searchVars == <<pc, request, strategy_llm, query_strategies, tasks, finished,
                all_papers, rank_llm, ranked_papers, insights, sessions,
                search_response, exception, calls, cancelled_at>>

\* the state of the context builders of the canvas and review endpoints
docVars == <<doc_pc, doc_request, documents, papers_with_content, contexts>>

\* the state of one LlamaClient.generate_response call
llmVars == <<llm_client, llm_prompt, llm_api, llm_result>>

\* the state of one _generate_fallback_connections call
graphVars == <<kb_papers, connections_graph>>

\* the state outside intelligent_search, and the state outside each of the
\* other operations
\* the state of one request to a knowledge-base or paper endpoint
httpVars == <<http_endpoint, http_env, http_response>>

otherVars == <<docVars, llmVars, graphVars, httpVars>>
exceptDocVars == <<searchVars, llmVars, graphVars, httpVars>>
exceptLlmVars == <<searchVars, docVars, graphVars, httpVars>>
exceptGraphVars == <<searchVars, docVars, llmVars, httpVars>>
exceptHttpVars == <<searchVars, docVars, llmVars, graphVars>>

vars == <<searchVars, otherVars>>

----------------------------------------------------------------------------
(* Bounds of the model *)

MaxQuestionPieces == 3   \* a question is made of at most this many pieces
MaxStrategies == 3       \* longest strategy array the LLM returns
MaxPapers == 2           \* longest candidate list handed to the ranker
MaxRankLen == 2          \* longest ranked_indices array the LLM returns
MaxEntries == 2          \* most entries in one search API answer
MaxId == 3               \* external ids are 1..MaxId
MaxOverLimit == 2        \* a session has up to this many candidates over the cap
MaxSessionPapers == 3    \* largest max_papers of a request whose session is saved
MaxDocs == 2             \* most papers in a canvas or a review
MaxCalls == 2            \* times the context assembler is called on the same arguments
MaxGraphPapers == 4      \* longest paper list whose years are chosen freely

----------------------------------------------------------------------------
(* str *)

UpperChars == <<"A", "B", "C", "D", "E", "F", "G", "H", "I", "J", "K", "L", "M",
                "N", "O", "P", "Q", "R", "S", "T", "U", "V", "W", "X", "Y", "Z">>
LowerChars == <<"a", "b", "c", "d", "e", "f", "g", "h", "i", "j", "k", "l", "m",
                "n", "o", "p", "q", "r", "s", "t", "u", "v", "w", "x", "y", "z">>

LowerChar(c) ==
    IF \E i \in 1..26 : UpperChars[i] = c
    THEN LowerChars[CHOOSE i \in 1..26 : UpperChars[i] = c]
    ELSE c

\* str.lower()
lower(s) == [i \in 1..Len(s) |-> LowerChar(s[i])]

IsSpace(c) == c \in {" ", "\t", "\n"}

RECURSIVE SplitFrom(_, _, _, _)
SplitFrom(s, i, cur, acc) ==
    IF i > Len(s)
    THEN IF cur = <<>> THEN acc ELSE Append(acc, cur)
    ELSE IF IsSpace(s[i])
         THEN SplitFrom(s, i + 1, <<>>, IF cur = <<>> THEN acc ELSE Append(acc, cur))
         ELSE SplitFrom(s, i + 1, Append(cur, s[i]), acc)

\* str.split(): the maximal runs of non-whitespace characters
split(s) == SplitFrom(s, 1, <<>>, <<>>)

\* sub occupies positions i .. i+Len(sub)-1 of s
MatchAt(s, sub, i) ==
    /\ i + Len(sub) - 1 <= Len(s)
    /\ \A k \in 1..Len(sub) : s[i + k - 1] = sub[k]

\* sub in s
contains(s, sub) == \E i \in 1..(Len(s) + 1) : MatchAt(s, sub, i)

RECURSIVE ReplaceFrom(_, _, _, _)
ReplaceFrom(s, old, new, i) ==
    IF i > Len(s) THEN <<>>
    ELSE IF MatchAt(s, old, i)
         THEN new \o ReplaceFrom(s, old, new, i + Len(old))
         ELSE <<s[i]>> \o ReplaceFrom(s, old, new, i + 1)

\* str.replace(old, new) for a non-empty old: every occurrence, left to right
replace(s, old, new) == ReplaceFrom(s, old, new, 1)

STR_deep_learning == <<"d", "e", "e", "p", " ", "l", "e", "a", "r", "n", "i", "n", "g">>
STR_neural_networks == <<"n", "e", "u", "r", "a", "l", " ", "n", "e", "t", "w", "o", "r", "k", "s">>
STR_computer_vision == <<"c", "o", "m", "p", "u", "t", "e", "r", " ", "v", "i", "s", "i", "o", "n">>
STR_image_processing == <<"i", "m", "a", "g", "e", " ", "p", "r", "o", "c", "e", "s", "s", "i", "n", "g">>
STR_machine_learning == <<"m", "a", "c", "h", "i", "n", "e", " ", "l", "e", "a", "r", "n", "i", "n", "g">>
STR_artificial_intelligence == <<"a", "r", "t", "i", "f", "i", "c", "i", "a", "l", " ", "i", "n", "t", "e", "l", "l", "i", "g", "e", "n", "c", "e">>
STR_transformers == <<"t", "r", "a", "n", "s", "f", "o", "r", "m", "e", "r", "s">>
STR_attention_mechanisms == <<"a", "t", "t", "e", "n", "t", "i", "o", "n", " ", "m", "e", "c", "h", "a", "n", "i", "s", "m", "s">>
STR_paren_open == <<"(">>
STR_and == <<")", " ", "A", "N", "D", " ", "(">>
STR_paren_close == <<")">>
STR_categories == <<"c", "a", "t", ":", "c", "s", ".", "C", "V", " ", "O", "R", " ", "c", "a", "t", ":", "c", "s", ".", "L", "G", " ", "O", "R", " ", "c", "a", "t", ":", "c", "s", ".", "A", "I", " ">>
STR_cat_ai == <<"c", "a", "t", ":", "c", "s", ".", "A", "I", " ">>
STR_applications == <<" ", "a", "p", "p", "l", "i", "c", "a", "t", "i", "o", "n", "s">>

\* the alt_terms dict, in insertion order
alt_terms == <<
    [original |-> STR_deep_learning,    alternative |-> STR_neural_networks],
    [original |-> STR_computer_vision,  alternative |-> STR_image_processing],
    [original |-> STR_machine_learning, alternative |-> STR_artificial_intelligence],
    [original |-> STR_neural_networks,  alternative |-> STR_deep_learning],
    [original |-> STR_transformers,     alternative |-> STR_attention_mechanisms] >>

----------------------------------------------------------------------------
(* JSON values *)

JObject(fields) == [t |-> "object", v |-> fields]
JArray(items) == [t |-> "array", v |-> items]
JNumber(n) == [t |-> "number", v |-> n]
JString(s) == [t |-> "string", v |-> s]
\* a str that the code only copies and compares whole, never looks into
JText(label) == JString(<<label>>)
\* a float, in hundredths
JFloat(hundredths) == [t |-> "float", v |-> hundredths]
JNull == [t |-> "null", v |-> "null"]

Returned(value) == [raised |-> FALSE, value |-> value]
Raised(exc) == [raised |-> TRUE, exc |-> exc]
\* nothing returned or raised yet
NoResult == [status |-> "none"]

----------------------------------------------------------------------------
(* LlamaClient.generate_response returns a str; json.loads either raises   *)
(* on it or yields a JSON value.  A response is modelled by which of the   *)
(* two happens.                                                            *)

NotJson == [kind |-> "text"]
JsonText(value) == [kind |-> "json", value |-> value]
NoResponse == [kind |-> "none"]

json_loads(response) ==
    IF response.kind = "json" THEN Returned(response.value)
    ELSE Raised("JSONDecodeError")

\* json.dumps of the mock nodes/edges/stats graph, which _mock_response
\* returns when the prompt contains "connections"
MockConnections ==
    JObject([nodes |-> JArray(<<>>), edges |-> JArray(<<>>), stats |-> JObject(<<>>)])

----------------------------------------------------------------------------
(* LlamaClient.generate_response *)

STR_connections == <<"c", "o", "n", "n", "e", "c", "t", "i", "o", "n", "s">>
STR_strategy_prompt == <<"G", "e", "n", "e", "r", "a", "t", "e", " ", "m", "u", "l", "t", "i", "p", "l", "e", " ", "A", "r", "X", "i", "v", " ", "s", "e", "a", "r", "c", "h", " ", "s", "t", "r", "a", "t", "e", "g", "i", "e", "s", " ", "f", "o", "r", " ", "t", "h", "i", "s", " ", "r", "e", "s", "e", "a", "r", "c", "h", " ", "q", "u", "e", "s", "t", "i", "o", "n", ":", "\n", " ", " ", " ", " ", " ", " ", " ", " ", "\"">>
STR_rank_prompt_analyze == <<"A", "n", "a", "l", "y", "z", "e", " ", "t", "h", "e", "s", "e", " ">>
STR_rank_prompt_papers == <<" ", "p", "a", "p", "e", "r", "s", " ", "f", "o", "r", " ", "t", "h", "e", " ", "r", "e", "s", "e", "a", "r", "c", "h", " ", "q", "u", "e", "s", "t", "i", "o", "n", ":", "\n", " ", " ", " ", " ", " ", " ", " ", " ", "\"">>
STR_quote == <<"\"">>

\* the prompt of _generate_query_strategies up to the closing quote of the
\* question; what follows is fixed text, the number of library papers and the
\* (empty) research areas and methodologies
strategy_prompt(research_question) ==
    STR_strategy_prompt \o research_question \o STR_quote

\* the prompt of _analyze_and_rank_papers up to the closing quote of the
\* question; what follows is fixed text and the dump of paper_summaries
rank_prompt(paper_summaries, research_question) ==
    STR_rank_prompt_analyze \o <<ToString(Len(paper_summaries))>>
        \o STR_rank_prompt_papers \o research_question \o STR_quote

\* what the chat-completions call does: it returns a content (a text that is
\* JSON or not), or it raises
ApiError == [kind |-> "error"]

\* _mock_response: the JSON dump of a nodes/edges/stats graph when the prompt
\* contains "connections", one of five fixed English paragraphs otherwise
mock_response(prompt) ==
    IF contains(lower(prompt), STR_connections)
    THEN JsonText(MockConnections)
    ELSE NotJson

\* Python values met in the answer of the chat-completions call.  A str is
\* one of the texts above (kind "text" or "json"); the other kinds are
PyDict(fields) == [kind |-> "dict", v |-> fields]
PyList(items) == [kind |-> "list", v |-> items]
PyInt == [kind |-> "int"]
PyNone == [kind |-> "none"]
\* an object that is no dict, has no strip() and that json.dumps rejects
PyObject == [kind |-> "object"]
\* an attribute the answer does not have
NoAttribute == [kind |-> "absent"]

IsStr(x) == x.kind \in {"text", "json"}
IsDict(x) == x.kind = "dict"
\* bool(x)
Truthy(x) ==
    /\ x.kind \notin {"none", "absent"}
    /\ x.kind \in {"dict", "list"} => x.v # <<>>

\* x.strip(): only a str has the method, and the stripped text is JSON iff
\* the text is
strip(x) == IF IsStr(x) THEN Returned(x) ELSE Raised("AttributeError")

\* json.dumps(x)
json_dumps(x) ==
    CASE x.kind = "object" -> Raised("TypeError")
      [] x.kind = "dict" -> Returned(JsonText(JObject(<<>>)))
      [] x.kind = "list" -> Returned(JsonText(JArray(<<>>)))
      [] x.kind = "int" -> Returned(JsonText(JNumber(0)))
      [] x.kind = "none" -> Returned(JsonText(JNull))
      [] OTHER -> Returned(JsonText(JText("text")))

\* the answer of chat.completions.create: the attributes generate_response
\* looks at; json is NoAttribute or what calling it does
ApiResponse(completion_message, json, choices) ==
    [kind |-> "response", completion_message |-> completion_message,
     json |-> json, choices |-> choices]
JsonReturns(value) == [kind |-> "returns", v |-> value]
JsonRaises == [kind |-> "raises"]
\* an OpenAI-style answer whose first choice carries the given content
ChoicesResponse(content) == ApiResponse(NoAttribute, NoAttribute, PyList(<<content>>))

\* a block of generate_response that neither returned nor raised
Continue == [raised |-> FALSE, continue |-> TRUE]
Continues(result) == "continue" \in DOMAIN result

\* "Handle Llama API response format"
FromCompletionMessage(response) ==
    LET message == response.completion_message
    IN  IF ~Truthy(message) THEN Continue
        ELSE IF ~IsDict(message) THEN Raised("AttributeError")
        ELSE LET content == IF "content" \in DOMAIN message.v
                            THEN message.v.content ELSE PyDict(<<>>)
             IN  IF IsDict(content) /\ "text" \in DOMAIN content.v
                 THEN strip(content.v.text)
                 ELSE IF IsStr(content) THEN strip(content)
                 ELSE Continue

\* "Handle raw JSON response": whatever is raised inside is passed over
FromJson(response) ==
    IF response.json.kind \in {"absent", "raises"} THEN Continue
    ELSE LET json_response == response.json.v
             result == IF IsDict(json_response) /\ "content" \in DOMAIN json_response.v
                       THEN strip(json_response.v.content)
                       ELSE json_dumps(json_response)
         IN  IF result.raised THEN Continue ELSE result

\* "Fallback for OpenAI-style response"
FromChoices(response) ==
    IF response.choices.kind = "absent" THEN Raised("AttributeError")
    ELSE IF ~Truthy(response.choices) THEN Continue
    ELSE LET content == response.choices.v[1]
         IN  IF content.kind \in {"dict", "list"} THEN json_dumps(content)
             ELSE strip(content)

\* the try block of generate_response once create has returned
HandleResponse(response) ==
    IF response.kind = "none" THEN Continue
    ELSE LET first == FromCompletionMessage(response)
             second == FromJson(response)
         IN  IF ~Continues(first) THEN first
             ELSE IF ~Continues(second) THEN second
             ELSE FromChoices(response)

\* the try block of generate_response
CreateAndHandle(api) ==
    IF api.kind = "error" THEN Raised("Exception") ELSE HandleResponse(api)

\* LlamaClient.generate_response without its `except Exception`
GenerateResponse_Unguarded(client, prompt, api) ==
    IF ~client THEN [result |-> Returned(mock_response(prompt)), api_calls |-> 0]
    ELSE LET body == CreateAndHandle(api)
         IN  [result |-> IF Continues(body) THEN Returned(mock_response(prompt)) ELSE body,
              api_calls |-> 1]

\* LlamaClient.generate_response: what it returns or raises, and the number
\* of chat-completions calls it made.  client is FALSE when there is no API
\* key.
GenerateResponse(client, prompt, api) ==
    IF ~client THEN [result |-> Returned(mock_response(prompt)), api_calls |-> 0]
    ELSE LET body == CreateAndHandle(api)
         IN  [result |-> IF body.raised \/ Continues(body)
                         THEN Returned(mock_response(prompt))
                         ELSE body,
              api_calls |-> 1]

\* generate_response of a client with an API key, when the call raises or
\* answers in OpenAI style with the given content
generate_response(prompt, outcome) ==
    GenerateResponse(TRUE, prompt,
                     IF outcome.kind = "error" THEN outcome
                     ELSE ChoicesResponse(outcome)).result.value

----------------------------------------------------------------------------
(* _generate_query_strategies *)

Strategy(query, strategy_type, reasoning) ==
    JObject([query |-> JString(query),
             strategy_type |-> JText(strategy_type),
             reasoning |-> JText(reasoning)])

\* AltQueryFrom with alt_query initialised to the lower-cased question
AltQueryFrom_Lowered(research_question, i) ==
    IF \E j \in i..Len(alt_terms) : contains(lower(research_question), alt_terms[j].original)
    THEN LET j == CHOOSE j \in i..Len(alt_terms) :
                      /\ contains(lower(research_question), alt_terms[j].original)
                      /\ \A k \in i..(j - 1) :
                             ~contains(lower(research_question), alt_terms[k].original)
         IN  replace(lower(research_question), alt_terms[j].original,
                     alt_terms[j].alternative)
    ELSE lower(research_question)

\* the for loop over alt_terms.items(): the first original that occurs in the
\* lower-cased question is replaced in the lower-cased question
RECURSIVE AltQueryFrom(_, _)
AltQueryFrom(research_question, i) ==
    IF i > Len(alt_terms) THEN research_question
    ELSE IF contains(lower(research_question), alt_terms[i].original)
         THEN replace(lower(research_question), alt_terms[i].original,
                      alt_terms[i].alternative)
         ELSE AltQueryFrom(research_question, i + 1)

AltQuery(research_question) == AltQueryFrom(research_question, 1)

\* the except branch of _generate_query_strategies
FallbackStrategies(research_question) ==
    LET keywords == split(research_question)
        direct == Strategy(research_question, "direct",
                           "Direct search with user's exact question")
    IN  IF Len(keywords) >= 2
        THEN << direct,
                Strategy(STR_paren_open \o keywords[1] \o STR_and
                             \o keywords[Len(keywords)] \o STR_paren_close,
                         "methodological",
                         "Focus on core methodology and application"),
                Strategy(STR_categories \o keywords[1], "broad",
                         "Search in relevant ArXiv categories"),
                Strategy(AltQuery(research_question), "alternative",
                         "Search with alternative terminology") >>
        ELSE << direct,
                Strategy(STR_cat_ai \o research_question, "broad",
                         "Search in AI category"),
                Strategy(research_question \o STR_applications, "applied",
                         "Find practical applications") >>

\* try: return json.loads(response)   except: return the fallback list
GenerateQueryStrategiesResult(research_question, response) ==
    LET parsed == json_loads(response)
    IN  IF parsed.raised
        THEN JArray(FallbackStrategies(research_question))
        ELSE parsed.value

----------------------------------------------------------------------------
(* ArxivService.search *)

\* What the search API does with the first GET of one search call.
Timeout == [kind |-> "timeout", status |-> 0, well_formed |-> FALSE, entries |-> <<>>]
HttpError(status) == [kind |-> "http", status |-> status, well_formed |-> FALSE, entries |-> <<>>]
BadXml == [kind |-> "http", status |-> 200, well_formed |-> FALSE, entries |-> <<>>]
Feed(entries) == [kind |-> "http", status |-> 200, well_formed |-> TRUE, entries |-> entries]
\* the first GET is answered 429, and a second GET would be answered by retry
RateLimitedThen(retry) ==
    [kind |-> "http", status |-> 429, well_formed |-> FALSE, entries |-> <<>>,
     retry |-> retry]
\* the task is cancelled while the GET is pending
Cancelled == [kind |-> "cancelled", status |-> 0, well_formed |-> FALSE, entries |-> <<>>]

\* ids of the entries that carry no <summary> element
NoSummaryIds == {3}

\* the <title> of the entry with the given id
Title(id) == JString(<<"T", ToString(id)>>)

\* _parse_entry followed by PaperResponse.dict(): abstract is None when the
\* entry has no summary, authors is always a list
ParseEntry(id) ==
    [id |-> id,
     title |-> Title(id),
     abstract |-> IF id \in NoSummaryIds THEN JNull ELSE JText("summary"),
     authors |-> JArray(<<>>)]

\* `await sleep(Config.RATE_LIMIT_DELAY)`: sleep is time.sleep, which blocks
\* for the delay and returns None, and None cannot be awaited
AwaitSleep == Raised("TypeError")

\* `term in query` raises TypeError for a query that is a number or None
QueryUsable(query) == query.t \notin {"number", "float", "null"}

\* the number of GET requests one call of ArxivService.search issues
GetRequests(query, answer) ==
    IF ~QueryUsable(query) THEN 0
    ELSE IF answer.kind = "http" /\ answer.status = 429 /\ ~AwaitSleep.raised THEN 2
    ELSE 1

\* ArxivService.search: the papers, or the exception that leaves it
search(query, answer) ==
    IF ~QueryUsable(query) THEN Raised("TypeError")
    ELSE IF answer.kind = "cancelled" THEN Raised("CancelledError")
    ELSE IF answer.kind = "timeout" THEN Raised("TimeoutException")
    ELSE IF answer.status = 429 /\ AwaitSleep.raised THEN AwaitSleep
    ELSE LET response == IF answer.status = 429 THEN answer.retry ELSE answer
         IN  IF response.kind = "timeout" THEN Raised("TimeoutException")
             ELSE IF response.status # 200 THEN Raised("HTTPStatusError")
             ELSE IF ~response.well_formed THEN Raised("Exception")
             ELSE Returned([i \in 1..Len(response.entries) |->
                                ParseEntry(response.entries[i])])

----------------------------------------------------------------------------
(* _execute_multi_strategy_search *)

\* search_with_strategy asks the API for at most this many results
\* (max_results=100); the number travels in the query parameters of the GET
StrategyMaxResults == 100

\* strategy['query'] is evaluated before the API is called
ReachesApi(strategy) == strategy.t = "object" /\ "query" \in DOMAIN strategy.v

\* the body of the try block of search_with_strategy
SearchWithStrategyBody(strategy, answer) ==
    IF strategy.t # "object" THEN Raised("TypeError")
    ELSE IF "query" \notin DOMAIN strategy.v THEN Raised("KeyError")
    ELSE LET papers == search(strategy.v.query, answer)
         IN  IF papers.raised THEN papers
             ELSE IF papers.value = <<>> THEN Returned(<<>>)
             ELSE IF "strategy_type" \notin DOMAIN strategy.v THEN Raised("KeyError")
             ELSE IF "reasoning" \notin DOMAIN strategy.v THEN Raised("KeyError")
             ELSE Returned([i \in 1..Len(papers.value) |->
                      [id |-> papers.value[i].id,
                       title |-> papers.value[i].title,
                       abstract |-> papers.value[i].abstract,
                       authors |-> papers.value[i].authors,
                       discovery_strategy |-> strategy.v.strategy_type,
                       strategy_reasoning |-> strategy.v.reasoning]])

\* search_with_strategy: try: ... except: return []
search_with_strategy(strategy, answer) ==
    LET body == SearchWithStrategyBody(strategy, answer)
    IN  IF body.raised THEN <<>> ELSE body.value

NoneId == 0

\* paper.get('id') or paper.get('paper_id'); ids are non-empty strings,
\* modelled by positive numbers
PaperId(paper) ==
    IF "id" \in DOMAIN paper /\ paper.id # NoneId THEN paper.id
    ELSE IF "paper_id" \in DOMAIN paper THEN paper.paper_id
    ELSE NoneId

RECURSIVE Flatten(_)
Flatten(results) ==
    IF results = <<>> THEN <<>> ELSE Head(results) \o Flatten(Tail(results))

\* Deduplicate without the seen_ids test
Deduplicate_KeepAll(papers, seen_ids) == papers

\* the seen_ids / unique_papers loop over the flattened results.  When the
\* loop reaches paper i, seen_ids holds the ids it started with and the ids
\* of the papers before i; paper i is appended iff its id is not among them.
Deduplicate(papers, seen_ids) ==
    LET appended(i) ==
            /\ PaperId(papers[i]) \notin seen_ids
            /\ \A j \in 1..(i - 1) : PaperId(papers[j]) # PaperId(papers[i])
        unique == SelectSeq([i \in 1..Len(papers) |-> i], appended)
    IN  [k \in 1..Len(unique) |-> papers[unique[k]]]

\* GatherResults in the order in which the coroutines completed
GatherResults_ByCompletion(ts, order) == [k \in 1..Len(order) |-> ts[order[k]].result]

\* asyncio.gather returns the results in the order of its arguments
GatherResults(ts, order) == [i \in 1..Len(ts) |-> ts[i].result]

\* MergeStrategyResults when one failing coroutine makes the whole gather fail
MergeStrategyResults_Abort(ts, order) ==
    IF \E i \in 1..Len(ts) : SearchWithStrategyBody(ts[i].strategy, ts[i].answer).raised
    THEN <<>>
    ELSE Deduplicate(Flatten(GatherResults(ts, order)), {})

MergeStrategyResults(ts, order) == Deduplicate(Flatten(GatherResults(ts, order)), {})

RECURSIVE SetToSeq(_)
SetToSeq(S) ==
    IF S = {} THEN <<>>
    ELSE LET x == CHOOSE y \in S : TRUE IN <<x>> \o SetToSeq(S \ {x})

\* `for x in value`: the items of a list, the keys of a dict, the characters
\* of a str; a number or None is not iterable
Iterable(value) == value.t \in {"array", "object", "string"}
Items(value) ==
    IF value.t = "array" THEN value.v
    ELSE IF value.t = "string" THEN [i \in 1..Len(value.v) |-> JString(<<value.v[i]>>)]
    ELSE LET keys == SetToSeq(DOMAIN value.v)
         IN  [i \in 1..Len(keys) |-> JText(keys[i])]

NotCalled == [kind |-> "none", status |-> 0, well_formed |-> FALSE, entries |-> <<>>]

PendingTask(strategy) ==
    [strategy |-> strategy, done |-> FALSE, answer |-> NotCalled, requests |-> 0,
     result |-> <<>>]

----------------------------------------------------------------------------
(* _analyze_and_rank_papers *)

AnalysisLimit == 50
DefaultRelevanceScore == 50
FallbackConfidence == 50

Min(a, b) == IF a <= b THEN a ELSE b

\* paper.get(key, default)[:n] raises TypeError when paper[key] is None
Sliceable(paper, key) == key \notin DOMAIN paper \/ paper[key].t # "null"

\* the paper_summaries loop, which runs before the try block
PaperSummaries(papers) ==
    LET analysed == SubSeq(papers, 1, Min(AnalysisLimit, Len(papers)))
    IN  IF \E i \in 1..Len(analysed) :
               ~Sliceable(analysed[i], "abstract") \/ ~Sliceable(analysed[i], "authors")
        THEN Raised("TypeError")
        ELSE Returned([i \in 1..Len(analysed) |-> i - 1])

\* papers[idx] for idx < len(papers): a negative idx counts from the end
InRange(papers, idx) == idx < Len(papers)

\* the ranking loop; ranked is ranked_papers so far
RECURSIVE ApplyRankings(_, _, _, _)
ApplyRankings(papers, analysis, indices, ranked) ==
    IF indices = <<>> THEN Returned(ranked)
    ELSE LET idx == Head(indices)
         IN  IF idx.t # "number" THEN Raised("TypeError")
             ELSE IF ~InRange(papers, idx.v)
                  THEN ApplyRankings(papers, analysis, Tail(indices), ranked)
             ELSE IF idx.v < 0 - Len(papers) THEN Raised("IndexError")
             ELSE IF "relevance_scores" \notin DOMAIN analysis THEN Raised("KeyError")
             ELSE IF analysis.relevance_scores.t # "object" THEN Raised("AttributeError")
             ELSE LET paper == papers[IF idx.v >= 0 THEN idx.v + 1
                                      ELSE Len(papers) + idx.v + 1]
                      scores == analysis.relevance_scores.v
                      key == ToString(idx.v)
                      score == IF key \in DOMAIN scores THEN scores[key]
                               ELSE JNumber(DefaultRelevanceScore)
                  IN  ApplyRankings(papers, analysis, Tail(indices),
                          Append(ranked,
                                 [relevance_score |-> score,
                                  llama_reasoning |-> Len(ranked) + 1] @@ paper))

\* the body of the try block, given the text generate_response returned
RankBody(papers, response) ==
    LET parsed == json_loads(response)
    IN  IF parsed.raised THEN parsed
        ELSE IF parsed.value.t # "object" THEN Raised("AttributeError")
        ELSE LET analysis == parsed.value.v
                 indices == IF "ranked_indices" \in DOMAIN analysis
                            THEN analysis.ranked_indices ELSE JArray(<<>>)
             IN  IF ~Iterable(indices) THEN Raised("TypeError")
                 ELSE LET ranked == ApplyRankings(papers, analysis, Items(indices), <<>>)
                      IN  IF ranked.raised THEN ranked
                          ELSE Returned([ranked_papers |-> ranked.value,
                                         insights |-> IF "insights" \in DOMAIN analysis
                                                      THEN analysis.insights
                                                      ELSE JObject(<<>>)])

FallbackInsights ==
    JObject([confidence_score |-> JFloat(FallbackConfidence),
             key_themes |-> JArray(<<JText("Unable to analyze")>>),
             suggested_refinements |-> JArray(<<JText("Try a more specific search")>>)])

\* the except branch
RankFallback(papers) == [ranked_papers |-> papers, insights |-> FallbackInsights]

\* _analyze_and_rank_papers: the (ranked_papers, insights) pair, or the
\* exception that leaves it
analyze_and_rank_papers(papers, response) ==
    LET summaries == PaperSummaries(papers)
        body == RankBody(papers, response)
    IN  IF summaries.raised THEN summaries
        ELSE IF body.raised THEN Returned(RankFallback(papers))
        ELSE body

----------------------------------------------------------------------------
(* Inputs *)

W_Deep_Learning == <<"D", "e", "e", "p", " ", "L", "e", "a", "r", "n", "i", "n", "g">>
W_GANs == <<"G", "A", "N", "s">>
W_space == <<" ">>

QuestionPieces == {STR_deep_learning, W_Deep_Learning, STR_transformers, W_GANs, W_space}

RECURSIVE Concat(_)
Concat(ss) == IF ss = <<>> THEN <<>> ELSE Head(ss) \o Concat(Tail(ss))

SeqsUpTo(S, n) == UNION {[1..k -> S] : k \in 0..n}

Questions == {Concat(ps) : ps \in SeqsUpTo(QuestionPieces, MaxQuestionPieces)}

\* elements of the array an LLM may return for the strategy prompt
LlmStrategyElements ==
    { Strategy(W_GANs, "broad", "r1"),
      Strategy(STR_transformers, "specific", "r2"),
      JObject([query |-> JString(W_GANs), strategy_type |-> JText("recent")]),
      JString(W_GANs) }

StrategyResponses ==
    {NotJson, JsonText(MockConnections), JsonText(JNumber(7)), JsonText(JString(W_GANs))}
        \cup {JsonText(JArray(a)) : a \in SeqsUpTo(LlmStrategyElements, MaxStrategies)}

Requests(questions) == [research_question : questions, max_papers : {1}]
RequestsOf(questions, sizes) == [research_question : questions, max_papers : sizes]

----------------------------------------------------------------------------
(* POST /api/intelligent/search *)

\* the constraints of IntelligentSearchRequest: a research question that is
\* not empty and a positive max_papers
WellFormedRequest(req) == req.research_question # <<>> /\ req.max_papers > 0

Rejected == [status |-> "rejected"]
HttpException(status_code) == [status |-> "error", status_code |-> status_code]

\* ValidateRequest without the constraints: every request is handed to
\* intelligent_arxiv_search
ValidateRequest_Defaulting ==
    /\ pc = "validate"
    /\ pc' = "context"
    /\ UNCHANGED <<request, strategy_llm, query_strategies, tasks, finished,
                   all_papers, rank_llm, ranked_papers, insights, sessions,
                   search_response, exception, calls, cancelled_at, otherVars>>

\* the request body is validated before intelligent_arxiv_search is called
ValidateRequest ==
    /\ pc = "validate"
    /\ IF WellFormedRequest(request)
       THEN pc' = "context" /\ search_response' = search_response
       ELSE pc' = "rejected" /\ search_response' = Rejected
    /\ UNCHANGED <<request, strategy_llm, query_strategies, tasks, finished,
                   all_papers, rank_llm, ranked_papers, insights, sessions,
                   exception, calls, cancelled_at, otherVars>>

\* intelligent_arxiv_search: `except Exception` turns what intelligent_search
\* raised into HTTPException(500); a CancelledError is not an Exception
RaiseHttpException ==
    /\ pc = "raised"
    /\ pc' = "failed"
    /\ search_response' = HttpException(500)
    /\ UNCHANGED <<request, strategy_llm, query_strategies, tasks, finished,
                   all_papers, rank_llm, ranked_papers, insights, sessions,
                   exception, calls, cancelled_at, otherVars>>

Running == {"context", "strategies", "search", "gather", "rank", "save", "respond"}

\* the task that runs intelligent_search is cancelled (by its owner, or by a
\* timeout put around it).  The CancelledError is delivered where the task is
\* suspended: the storage calls and the chat-completions call are synchronous,
\* so that is the await of gather and the GETs of its coroutines.
CancelRequest ==
    /\ pc \in Running
    /\ cancelled_at = "none"
    /\ cancelled_at' = pc
    /\ UNCHANGED <<pc, request, strategy_llm, query_strategies, tasks, finished,
                   all_papers, rank_llm, ranked_papers, insights, sessions,
                   search_response, exception, calls, otherVars>>

----------------------------------------------------------------------------
(* intelligent_search, one step per awaited call *)

\* _build_research_context: three reads of the storage backend, none guarded
BuildResearchContext ==
    /\ pc = "context"
    /\ \E storage_ok \in BOOLEAN :
        IF storage_ok
        THEN pc' = "strategies" /\ exception' = exception
        ELSE pc' = "raised" /\ exception' = "APIError"
    /\ UNCHANGED <<request, strategy_llm, query_strategies, tasks, finished,
                   all_papers, rank_llm, ranked_papers, insights, sessions,
                   search_response,
                   calls, cancelled_at, otherVars>>

GenerateQueryStrategies(responses) ==
    /\ pc = "strategies"
    /\ \E outcome \in responses :
        LET response == generate_response(strategy_prompt(request.research_question),
                                          outcome)
        IN  /\ strategy_llm' = response
            /\ query_strategies' =
                   GenerateQueryStrategiesResult(request.research_question, response)
            /\ calls' = [calls EXCEPT !.strategy = Append(@, outcome)]
    /\ pc' = "search"
    /\ UNCHANGED <<request, tasks, finished, all_papers, rank_llm,
                   ranked_papers, insights, sessions,
                   search_response, exception, cancelled_at, otherVars>>

\* the list comprehension that creates one coroutine per strategy
StartSearches ==
    /\ pc = "search"
    /\ IF Iterable(query_strategies)
       THEN /\ tasks' = [i \in 1..Len(Items(query_strategies)) |->
                             PendingTask(Items(query_strategies)[i])]
            /\ pc' = "gather"
            /\ exception' = exception
       ELSE /\ tasks' = tasks
            /\ pc' = "raised"
            /\ exception' = "TypeError"
    /\ UNCHANGED <<request, strategy_llm, query_strategies, finished, all_papers,
                   rank_llm, ranked_papers, insights, sessions,
                   search_response,
                   calls, cancelled_at, otherVars>>

\* one search_with_strategy coroutine runs to its return
CompleteSearch(answers) ==
    /\ pc = "gather"
    /\ \E i \in 1..Len(tasks) :
        /\ ~tasks[i].done
        /\ \E answer \in (IF ~ReachesApi(tasks[i].strategy) THEN {NotCalled}
                          ELSE IF cancelled_at # "none" THEN {Cancelled}
                          ELSE answers) :
            tasks' = [tasks EXCEPT ![i] =
                        [strategy |-> tasks[i].strategy,
                         done |-> TRUE,
                         answer |-> answer,
                         requests |-> IF answer = NotCalled THEN 0
                                      ELSE GetRequests(tasks[i].strategy.v.query, answer),
                         result |-> search_with_strategy(tasks[i].strategy, answer)]]
        /\ finished' = Append(finished, i)
    /\ UNCHANGED <<pc, request, strategy_llm, query_strategies, all_papers,
                   rank_llm, ranked_papers, insights, sessions,
                   search_response, exception,
                   calls, cancelled_at, otherVars>>

\* every coroutine handed to gather has returned
AllFetchesDone(ts) == \A i \in 1..Len(ts) : ts[i].done

\* MergeResults that goes on as soon as one coroutine has returned
MergeResults_Partial ==
    /\ pc = "gather"
    /\ tasks = <<>> \/ \E i \in 1..Len(tasks) : tasks[i].done
    /\ all_papers' = MergeStrategyResults(tasks, finished)
    /\ pc' = "rank"
    /\ UNCHANGED <<request, strategy_llm, query_strategies, tasks, finished,
                   rank_llm, ranked_papers, insights, sessions,
                   search_response, exception, calls, cancelled_at, otherVars>>

\* gather returns once every coroutine has returned; flatten and deduplicate.
\* A gather that was cancelled while it was awaited raises CancelledError
\* once its coroutines have ended; gather() of no coroutine is never awaited.
MergeResults ==
    /\ pc = "gather"
    /\ AllFetchesDone(tasks)
    /\ IF cancelled_at # "none" /\ tasks # <<>>
       THEN /\ all_papers' = all_papers
            /\ pc' = "cancelled"
            /\ exception' = "CancelledError"
       ELSE /\ all_papers' = MergeStrategyResults(tasks, finished)
            /\ pc' = "rank"
            /\ exception' = exception
    /\ UNCHANGED <<request, strategy_llm, query_strategies, tasks, finished,
                   rank_llm, ranked_papers, insights, sessions,
                   search_response, calls, cancelled_at, otherVars>>

AnalyzeAndRankPapers(responses) ==
    /\ pc = "rank"
    /\ \E outcome \in responses :
        LET summaries == PaperSummaries(all_papers)
            response == generate_response(
                            rank_prompt(IF summaries.raised THEN <<>> ELSE summaries.value,
                                        request.research_question),
                            outcome)
            result == analyze_and_rank_papers(all_papers, response)
        IN  /\ rank_llm' = IF summaries.raised THEN rank_llm ELSE response
            /\ calls' = IF summaries.raised THEN calls
                        ELSE [calls EXCEPT !.synthesis = Append(@, outcome)]
            /\ IF result.raised
               THEN /\ pc' = "raised"
                    /\ exception' = result.exc
                    /\ UNCHANGED <<ranked_papers, insights>>
               ELSE /\ pc' = "save"
                    /\ exception' = exception
                    /\ ranked_papers' = result.value.ranked_papers
                    /\ insights' = result.value.insights
    /\ UNCHANGED <<request, strategy_llm, query_strategies, tasks, finished,
                   all_papers, sessions, search_response, cancelled_at, otherVars>>

SessionCandidateLimit == 100
DefaultSessionScore == 0
DefaultSessionConfidence == 50
DefaultResponseConfidence == 80

\* d.get(key, default) on a dict
Get(d, key, default) == IF key \in DOMAIN d THEN d[key] ELSE default

\* seq[:n] without the slice
Prefix_All(seq, n) == seq

\* seq[:n] for n >= 0
Prefix(seq, n) == SubSeq(seq, 1, Min(n, Len(seq)))

\* SessionData with the two lists stored whole
SessionData_Untruncated ==
    [research_question |-> request.research_question,
     query_strategies |-> query_strategies,
     candidate_papers |->
         [i \in 1..Len(all_papers) |->
             [paper_id |-> Get(all_papers[i], "paper_id", NoneId),
              title |-> Get(all_papers[i], "title", JNull),
              discovery_strategy |-> Get(all_papers[i], "discovery_strategy", JNull)]],
     ranked_papers |->
         [i \in 1..Len(ranked_papers) |->
             [paper_id |-> Get(ranked_papers[i], "paper_id", NoneId),
              title |-> Get(ranked_papers[i], "title", JNull),
              relevance_score |-> Get(ranked_papers[i], "relevance_score",
                                      JNumber(DefaultSessionScore))]],
     research_insights |-> insights,
     total_candidates |-> Len(all_papers),
     max_papers |-> request.max_papers,
     confidence_score |-> Get(insights.v, "confidence_score",
                              JFloat(DefaultSessionConfidence))]

\* the session_data dict built in _save_search_session
SessionData ==
    [research_question |-> request.research_question,
     query_strategies |-> query_strategies,
     candidate_papers |->
         [i \in 1..Len(Prefix(all_papers, SessionCandidateLimit)) |->
             [paper_id |-> Get(all_papers[i], "paper_id", NoneId),
              title |-> Get(all_papers[i], "title", JNull),
              discovery_strategy |-> Get(all_papers[i], "discovery_strategy", JNull)]],
     ranked_papers |->
         [i \in 1..Len(Prefix(ranked_papers, request.max_papers)) |->
             [paper_id |-> Get(ranked_papers[i], "paper_id", NoneId),
              title |-> Get(ranked_papers[i], "title", JNull),
              relevance_score |-> Get(ranked_papers[i], "relevance_score",
                                      JNumber(DefaultSessionScore))]],
     research_insights |-> insights,
     total_candidates |-> Len(all_papers),
     max_papers |-> request.max_papers,
     confidence_score |-> Get(insights.v, "confidence_score",
                              JFloat(DefaultSessionConfidence))]

\* SaveSearchSession without the except branch: a failed insert leaves
\* _save_search_session and intelligent_search
SaveSearchSession_Propagates ==
    /\ pc = "save"
    /\ \E insert_ok \in BOOLEAN :
        /\ sessions' = IF insights.t = "object" /\ insert_ok
                       THEN Append(sessions, SessionData)
                       ELSE sessions
        /\ calls' = IF insights.t = "object"
                    THEN [calls EXCEPT !.inserts =
                              Append(@, IF insert_ok THEN "ok" ELSE "failed")]
                    ELSE calls
        /\ IF insights.t = "object" /\ insert_ok
           THEN pc' = "respond" /\ exception' = exception
           ELSE pc' = "raised" /\ exception' = "APIError"
    /\ UNCHANGED <<request, strategy_llm, query_strategies, tasks, finished,
                   all_papers, rank_llm, ranked_papers, insights,
                   search_response, cancelled_at, otherVars>>

\* _save_search_session: any exception of the try block is printed and dropped;
\* insights.get raises AttributeError when insights is not a dict
SaveSearchSession ==
    /\ pc = "save"
    /\ \E insert_ok \in BOOLEAN :
        /\ sessions' = IF insights.t = "object" /\ insert_ok
                       THEN Append(sessions, SessionData)
                       ELSE sessions
        /\ calls' = IF insights.t = "object"
                    THEN [calls EXCEPT !.inserts =
                              Append(@, IF insert_ok THEN "ok" ELSE "failed")]
                    ELSE calls
    /\ pc' = "respond"
    /\ UNCHANGED <<request, strategy_llm, query_strategies, tasks, finished,
                   all_papers, rank_llm, ranked_papers, insights,
                   search_response, exception, cancelled_at, otherVars>>

\* the return statement of intelligent_search
Respond ==
    /\ pc = "respond"
    /\ IF insights.t = "object"
       THEN /\ search_response' =
                  [status |-> "returned",
                   papers |-> Prefix(ranked_papers, request.max_papers),
                   total_candidates |-> Len(all_papers),
                   query_strategies |-> query_strategies,
                   research_insights |-> insights,
                   confidence_score |-> Get(insights.v, "confidence_score",
                                            JFloat(DefaultResponseConfidence))]
            /\ pc' = "done"
            /\ exception' = exception
       ELSE /\ search_response' = search_response
            /\ pc' = "raised"
            /\ exception' = "AttributeError"
    /\ UNCHANGED <<request, strategy_llm, query_strategies, tasks, finished,
                   all_papers, rank_llm, ranked_papers, insights, sessions,
                   calls, cancelled_at, otherVars>>

----------------------------------------------------------------------------
(* The context strings assembled for the LLM                               *)
(*                                                                         *)
(* A long text (an abstract, a full text) is modelled by its source and    *)
(* its length; text[:n] keeps the source and cuts the length.  A context   *)
(* string is the sequence of its pieces: the literal texts of the          *)
(* f-strings, the numbers and the long texts formatted into them.          *)

Text(src, len) == [t |-> "text", v |-> [src |-> src, len |-> len]]

\* text[:n]
Slice(text, n) == Text(text.v.src, Min(text.v.len, n))

\* bool(text) of a str
NonEmpty(text) == text.v.len > 0

Newline == JText("\n")

\* '\n'.join(parts), each part being the pieces of one str
RECURSIVE Join(_)
Join(parts) ==
    IF parts = <<>> THEN <<>>
    ELSE IF Len(parts) = 1 THEN Head(parts)
    ELSE Head(parts) \o <<Newline>> \o Join(Tail(parts))

\* ', '.join(items)
RECURSIVE CommaJoin(_)
CommaJoin(items) ==
    IF items = <<>> THEN <<>>
    ELSE IF Len(items) = 1 THEN items
    ELSE <<Head(items), JText(", ")>> \o CommaJoin(Tail(items))

JBool(b) == [t |-> "bool", v |-> b]

CanvasFullTextLimit == 30000
ReviewFullTextLimit == 5000
SummaryAbstractLimit == 500

\* the row of the papers table with the id of the given paper, or NoRow
NoRow == [t |-> "none"]
StoredRow(paper) == paper.row

\* _get_papers_full_content: the papers that have a row in the papers table,
\* each with the first 30000 characters of the row's full_text.
\* full_paper.get('full_text', '')[:30000] raises TypeError when the column
\* is null.
RECURSIVE get_papers_full_content(_)
get_papers_full_content(papers) ==
    IF papers = <<>> THEN Returned(<<>>)
    ELSE LET paper == Head(papers)
             full_paper == StoredRow(paper)
             rest == get_papers_full_content(Tail(papers))
         IN  IF full_paper = NoRow THEN rest
             ELSE IF "full_text" \in DOMAIN full_paper /\ full_paper.full_text.t = "null"
                  THEN Raised("TypeError")
             ELSE IF rest.raised THEN rest
             ELSE Returned(
                    <<[id |-> paper.id,
                       title |-> paper.title,
                       abstract |-> paper.abstract,
                       authors |-> paper.authors,
                       year |-> paper.year,
                       topics |-> paper.topics,
                       full_text |-> Slice(Get(full_paper, "full_text", Text("empty", 0)),
                                           CanvasFullTextLimit),
                       qualityScore |-> Get(paper, "qualityScore", JNumber(80)),
                       added_at |-> Get(paper, "added_at", JNull)]>>
                    \o rest.value)

\* the parts appended to context_parts for paper number i (counted from 0)
CanvasPaperParts(paper, i) ==
    << <<JText("\n--- PAPER "), JNumber(i + 1), JText(": "), paper.title,
         JText(" ("), JNumber(paper.year), JText(") ---")>>,
       <<JText("Authors: ")>> \o CommaJoin(paper.authors),
       <<JText("Topics: ")>> \o CommaJoin(paper.topics),
       <<JText("Abstract: "), paper.abstract>> >>
    \o (IF NonEmpty(paper.full_text)
        THEN << <<JText("Full Content (excerpt): "), paper.full_text>> >>
        ELSE <<>>)
    \o << <<JText("Quality Score: "), Get(paper, "qualityScore", JText("N/A"))>>,
          <<JText("Added: "), Get(paper, "added_at", JText("N/A"))>>,
          <<>> >>

RECURSIVE CanvasPapersParts(_, _)
CanvasPapersParts(papers, i) ==
    IF i >= Len(papers) THEN <<>>
    ELSE CanvasPaperParts(papers[i + 1], i) \o CanvasPapersParts(papers, i + 1)

\* _prepare_long_context
prepare_long_context(papers, req) ==
    Join(
       << <<JText("=== COMPLETE RESEARCH COLLECTION ANALYSIS ===\n")>>,
          <<JText("Total Papers: "), JNumber(Len(papers)), JText("\n")>> >>
       \o CanvasPapersParts(papers, 0)
       \o (IF req.focus_areas # <<>>
           THEN << <<JText("\nFOCUS AREAS: ")>> \o CommaJoin(req.focus_areas) >>
           ELSE <<>>)
       \o << <<JText("\nANALYSIS DEPTH: "), JText(req.analysis_depth)>>,
             <<JText("INCLUDE METHODOLOGY MAP: "), JBool(req.include_methodology_map)>>,
             <<JText("INCLUDE TIMELINE: "), JBool(req.include_timeline)>>,
             <<JText("INCLUDE RESEARCH GAPS: "), JBool(req.include_research_gaps)>>,
             <<JText("INCLUDE FUTURE DIRECTIONS: "), JBool(req.include_future_directions)>> >>)

\* one element of context_parts of generate_literature_review, for paper
\* number i; paper.get('full_text', 'N/A')[:5000] raises TypeError when
\* full_text is None
ReviewPaperPart(paper, i) ==
    <<JText("\nPaper "), JNumber(i + 1), JText(":\nTitle: "), paper.title,
      JText("\nAuthors: ")>> \o CommaJoin(Get(paper, "authors", <<>>))
    \o <<JText("\nYear: "), JNumber(paper.year),
      JText("\nAbstract: "), Get(paper, "abstract", JText("N/A")),
      JText("\nFull Text (first 5000 chars): "),
      Slice(Get(paper, "full_text", Text("N/A", 3)), ReviewFullTextLimit),
      JText("\n---\n")>>

\* lines 84-98 of generate_literature_review
review_context(papers, req) ==
    LET reviewed == Prefix(papers, req.max_papers)
    IN  IF \E i \in 1..Len(reviewed) : ~Sliceable(reviewed[i], "full_text")
        THEN Raised("TypeError")
        ELSE Returned(Join(
                 << <<JText("Literature Review Focus: "), req.research_focus,
                      JText("\n")>> >>
                 \o [i \in 1..Len(reviewed) |-> ReviewPaperPart(reviewed[i], i - 1)]))

\* one entry of paper_summaries of _analyze_and_rank_papers, with the
\* abstract it carries into the ranking prompt
PaperSummary(paper, i) ==
    [index |-> i, title |-> paper.title,
     abstract |-> Slice(Get(paper, "abstract", Text("empty", 0)), SummaryAbstractLimit)]

\* json.dumps(paper_summaries) as it is formatted into the ranking prompt:
\* index, title and abstract of every summarised paper
ranking_context(papers) ==
    LET indices == PaperSummaries(papers)
    IN  IF indices.raised THEN indices
        ELSE Returned(
               [k \in 1..(3 * Len(indices.value)) |->
                   LET i == (k - 1) \div 3
                       summary == PaperSummary(papers[i + 1], indices.value[i + 1])
                   IN  CASE k % 3 = 1 -> JNumber(summary.index)
                         [] k % 3 = 2 -> summary.title
                         [] OTHER -> summary.abstract])

\* _get_papers_full_content as generate_knowledge_canvas calls it; an
\* exception becomes the handler's HTTP 500
GetPapersFullContent ==
    /\ doc_pc = "canvas_fetch"
    /\ LET result == get_papers_full_content(documents)
       IN  IF result.raised
           THEN doc_pc' = "failed" /\ papers_with_content' = papers_with_content
           ELSE doc_pc' = "canvas_context" /\ papers_with_content' = result.value
    /\ UNCHANGED <<doc_request, documents, contexts>>
    /\ UNCHANGED exceptDocVars

\* PrepareLongContext that numbers the strings it builds
PrepareLongContext_Stamped ==
    /\ doc_pc = "canvas_context"
    /\ Len(contexts) < MaxCalls
    /\ contexts' = Append(contexts,
                          <<JNumber(Len(contexts))>>
                              \o prepare_long_context(papers_with_content, doc_request))
    /\ UNCHANGED <<doc_pc, doc_request, documents, papers_with_content>>
    /\ UNCHANGED exceptDocVars

\* one call of _prepare_long_context(papers_with_content, request); the call
\* can be made again with the same arguments
PrepareLongContext ==
    /\ doc_pc = "canvas_context"
    /\ Len(contexts) < MaxCalls
    /\ contexts' = Append(contexts, prepare_long_context(papers_with_content, doc_request))
    /\ UNCHANGED <<doc_pc, doc_request, documents, papers_with_content>>
    /\ UNCHANGED exceptDocVars

\* generate_literature_review from `if not papers` to full_context
ReviewContext ==
    /\ doc_pc = "review"
    /\ LET result == review_context(documents, doc_request)
       IN  IF documents = <<>> \/ result.raised
           THEN doc_pc' = "failed" /\ contexts' = contexts
           ELSE doc_pc' = "built" /\ contexts' = Append(contexts, result.value)
    /\ UNCHANGED <<doc_request, documents, papers_with_content>>
    /\ UNCHANGED exceptDocVars

\* the paper_summaries loop of _analyze_and_rank_papers and their place in
\* the ranking prompt
RankingContext ==
    /\ doc_pc = "summaries"
    /\ LET result == ranking_context(documents)
       IN  IF result.raised
           THEN doc_pc' = "failed" /\ contexts' = contexts
           ELSE doc_pc' = "built" /\ contexts' = Append(contexts, result.value)
    /\ UNCHANGED <<doc_request, documents, papers_with_content>>
    /\ UNCHANGED exceptDocVars

\* one call of LlamaClient.generate_response
GenerateResponseCall ==
    /\ llm_result = NoResult
    /\ llm_api # NoResponse
    /\ llm_result' = GenerateResponse(llm_client, llm_prompt, llm_api)
    /\ UNCHANGED <<llm_client, llm_prompt, llm_api>>
    /\ UNCHANGED exceptLlmVars

\* generate_response is not being called
LlmIdle ==
    /\ llm_client = FALSE
    /\ llm_prompt = <<>>
    /\ llm_api = NoResponse
    /\ llm_result = NoResult

FallbackGraphLimit == 20
YearWindow == 2

Abs(n) == IF n < 0 THEN 0 - n ELSE n

\* the nodes made of papers[:20]: id, year and a connections count of 0 (the
\* title, authors, citations, qualityScore and grid position play no part in
\* the edges)
FallbackNodes(papers) ==
    [i \in 1..Len(Prefix(papers, FallbackGraphLimit)) |->
        [id |-> papers[i].id, year |-> papers[i].year, connections |-> 0]]

\* strength = 1.0 - year_diff / 4, in hundredths
FallbackEdge(node1, node2) ==
    [source |-> node1.id, target |-> node2.id,
     strength |-> 100 - 25 * Abs(node1.year - node2.year)]

\* the inner loop `for j, node2 in enumerate(nodes[i+1:], i+1)` from j on,
\* with the local variable connections; indices count from 1 here
RECURSIVE ConnectFrom(_, _, _, _, _)
ConnectFrom(nodes, edges, i, j, connections) ==
    IF j > Len(nodes) THEN [nodes |-> nodes, edges |-> edges]
    ELSE IF Abs(nodes[i].year - nodes[j].year) <= YearWindow
    THEN ConnectFrom([nodes EXCEPT ![i].connections = connections + 1,
                                   ![j].connections = @ + 1],
                     Append(edges, FallbackEdge(nodes[i], nodes[j])),
                     i, j + 1, connections + 1)
    ELSE ConnectFrom(nodes, edges, i, j + 1, connections)

\* the outer loop `for i, node1 in enumerate(nodes)` from i on
RECURSIVE ConnectAll(_, _, _)
ConnectAll(nodes, edges, i) ==
    IF i > Len(nodes) THEN [nodes |-> nodes, edges |-> edges]
    ELSE LET connected == ConnectFrom(nodes, edges, i, i + 1, 0)
         IN  ConnectAll(connected.nodes, connected.edges, i + 1)

\* _generate_fallback_connections; avgDegree is left out
generate_fallback_connections(papers) ==
    LET connected == ConnectAll(FallbackNodes(papers), <<>>, 1)
    IN  [nodes |-> connected.nodes,
         edges |-> connected.edges,
         stats |-> [totalNodes |-> Len(connected.nodes),
                    totalConnections |-> Len(connected.edges)]]

GenerateFallbackConnections ==
    /\ connections_graph = NoResult
    /\ connections_graph' = generate_fallback_connections(kb_papers)
    /\ UNCHANGED kb_papers
    /\ UNCHANGED exceptGraphVars

\* _generate_fallback_connections is not being called
GraphIdle ==
    /\ kb_papers = <<>>
    /\ connections_graph = NoResult

----------------------------------------------------------------------------
(* Handlers that raise an HTTPException of their own inside their try block *)

\* raise HTTPException(status_code=...)
RaisedHttp(status_code) ==
    [raised |-> TRUE, exc |-> "HTTPException", status_code |-> status_code]
IsHttpException(result) == result.raised /\ result.exc = "HTTPException"

\* a call of the storage client or of an analysis that fails
StorageError == Raised("Exception")
Ok == Returned(200)

\* try: body / except Exception: raise HTTPException(500).  HTTPException is
\* a subclass of Exception.
ExceptException(body) ==
    IF body.raised THEN HttpException(500) ELSE [status |-> "ok", status_code |-> 200]

\* try: body / except HTTPException: raise / except Exception: raise
\* HTTPException(500)
ExceptHttpThenException(body) ==
    IF IsHttpException(body) THEN HttpException(body.status_code)
    ELSE ExceptException(body)

\* the try block of create_knowledgebase
CreateKnowledgebaseBody(env) ==
    IF ~env.storage_ok THEN StorageError
    ELSE IF ~env.created THEN RaisedHttp(400)
    ELSE IF ~env.rest_ok THEN StorageError
    ELSE Ok

\* the try block of generate_knowledgebase_connections, of
\* generate_knowledgebase_insights_endpoint and of
\* generate_knowledgebase_analytics_endpoint, and that of
\* generate_knowledgebase_analysis
GenerateBody(env) ==
    IF ~env.storage_ok THEN StorageError
    ELSE IF ~env.owned THEN RaisedHttp(403)
    ELSE IF ~env.has_papers THEN RaisedHttp(400)
    ELSE IF ~env.rest_ok THEN StorageError
    ELSE Ok

\* the try block of schedule_paper_download
ScheduleDownloadBody(env) ==
    IF ~env.storage_ok THEN StorageError
    ELSE IF ~env.owned THEN RaisedHttp(403)
    ELSE IF ~env.rest_ok THEN StorageError
    ELSE Ok

\* the try block of save_discovered_paper; search_arxiv turns a failed
\* search into an HTTPException(500) itself
SaveDiscoveredBody(env) ==
    IF ~env.storage_ok THEN RaisedHttp(500)
    ELSE IF ~env.found THEN RaisedHttp(404)
    ELSE IF ~env.rest_ok THEN StorageError
    ELSE Ok

\* the body of the handler of an endpoint, and the handler
HandlerBody(endpoint, env) ==
    CASE endpoint = "create_knowledgebase" -> CreateKnowledgebaseBody(env)
      [] endpoint \in {"generate_connections", "generate_insights",
                        "generate_analytics", "generate_analysis"} -> GenerateBody(env)
      [] endpoint = "schedule_download" -> ScheduleDownloadBody(env)
      [] endpoint = "save_discovered_paper" -> SaveDiscoveredBody(env)

\* what a handler delivers: the status its body decided on, if any, and the
\* status the caller receives
Handled(body, delivered) ==
    [decided |-> IF IsHttpException(body) THEN body.status_code ELSE 0,
     status_code |-> delivered.status_code]

\* Handle that lets the HTTPException of the body through
Handle_Reraising(endpoint) ==
    /\ http_endpoint = endpoint
    /\ http_response = NoResult
    /\ http_response' =
           Handled(HandlerBody(endpoint, http_env),
                   ExceptHttpThenException(HandlerBody(endpoint, http_env)))
    /\ UNCHANGED <<http_endpoint, http_env>>
    /\ UNCHANGED exceptHttpVars

\* a handler whose only except clause is `except Exception`
Handle(endpoint) ==
    /\ http_endpoint = endpoint
    /\ http_response = NoResult
    /\ http_response' =
           Handled(HandlerBody(endpoint, http_env),
                   ExceptException(HandlerBody(endpoint, http_env)))
    /\ UNCHANGED <<http_endpoint, http_env>>
    /\ UNCHANGED exceptHttpVars

CreateKnowledgebase == Handle("create_knowledgebase")
GenerateConnections == Handle("generate_connections")
GenerateInsights == Handle("generate_insights")
GenerateAnalytics == Handle("generate_analytics")
SchedulePaperDownload == Handle("schedule_download")
SaveDiscoveredPaper == Handle("save_discovered_paper")

\* generate_knowledgebase_analysis has `except HTTPException: raise` before
\* its `except Exception`
GenerateAnalysis == Handle_Reraising("generate_analysis")

\* no request is being handled
HttpIdle ==
    /\ http_endpoint = "none"
    /\ http_env = NoResult
    /\ http_response = NoResult

\* no context is being built
NoRequest == [endpoint |-> "none"]
DocsIdle ==
    /\ doc_pc = "idle"
    /\ doc_request = NoRequest
    /\ documents = <<>>
    /\ papers_with_content = <<>>
    /\ contexts = <<>>

OthersIdle == DocsIdle /\ LlmIdle /\ GraphIdle /\ HttpIdle

NoCalls == [strategy |-> <<>>, synthesis |-> <<>>, inserts |-> <<>>]

\* the state in which intelligent_search is at the given position with the
\* given arguments and nothing computed yet
SearchAt(position, requests, strategies, candidates) ==
    /\ pc = position
    /\ request \in requests
    /\ strategy_llm = NoResponse
    /\ query_strategies \in strategies
    /\ tasks = <<>>
    /\ finished = <<>>
    /\ all_papers \in candidates
    /\ rank_llm = NoResponse
    /\ ranked_papers = <<>>
    /\ insights = JObject(<<>>)
    /\ sessions = <<>>
    /\ search_response = NoResult
    /\ exception = "none"
    /\ calls = NoCalls
    /\ cancelled_at = "none"

InitAt(position, requests, strategies, candidates) ==
    SearchAt(position, requests, strategies, candidates) /\ OthersIdle

\* intelligent_search is not running
SearchIdle == SearchAt("idle", Requests({W_GANs}), {JArray(<<>>)}, {<<>>})

\* _generate_query_strategies on its own, for every question and response
InitStrategies == InitAt("strategies", Requests(Questions), {JArray(<<>>)}, {<<>>})
NextStrategies == GenerateQueryStrategies(StrategyResponses)
SpecStrategies == InitStrategies /\ [][NextStrategies]_vars

\* answers of the search API: the feeds of up to MaxEntries different entries,
\* and one feed that lists the same entry twice
Injective(seq) == \A i, j \in 1..Len(seq) : seq[i] = seq[j] => i = j
Feeds ==
    {Feed(ids) : ids \in {seq \in SeqsUpTo(1..MaxId, MaxEntries) : Injective(seq)}}
        \cup {Feed(<<1, 1>>)}
ApiAnswers ==
    {Timeout, HttpError(429), RateLimitedThen(Feed(<<1>>)), HttpError(500), BadXml}
        \cup Feeds

\* strategy lists handed to _execute_multi_strategy_search
StrategyA == Strategy(W_GANs, "broad", "r1")
StrategyB == Strategy(STR_transformers, "specific", "r2")
StrategyC == Strategy(W_space, "broad", "r3")
NoReasoning == JObject([query |-> JString(W_GANs), strategy_type |-> JText("recent")])
NoQuery == JObject([strategy_type |-> JText("recent"), reasoning |-> JText("r4")])

SearchStrategyLists ==
    { JArray(<<StrategyA, StrategyB>>),
      JArray(<<NoReasoning, StrategyA>>),
      JArray(<<NoQuery, StrategyA, JString(W_GANs), StrategyC>>),
      MockConnections,
      JString(W_GANs),
      JNumber(7) }

\* _execute_multi_strategy_search for every answer of the search API, and the
\* rest of the call after it
InitSearch == InitAt("search", Requests({W_GANs}), SearchStrategyLists, {<<>>})
NextSearch ==
    \/ StartSearches
    \/ CompleteSearch(ApiAnswers)
    \/ MergeResults
    \/ AnalyzeAndRankPapers({NotJson})
    \/ SaveSearchSession
    \/ Respond
SpecSearch == InitSearch /\ [][NextSearch]_vars

\* candidate lists handed to _analyze_and_rank_papers
PaperShapes == {"full", "abstract_null", "abstract_absent", "authors_null"}

CandidatePaper(id, shape) ==
    LET rest == [id |-> id,
                 title |-> Title(id),
                 discovery_strategy |-> JText("broad"),
                 strategy_reasoning |-> JText("r1")]
        abstract == IF shape = "abstract_null" THEN JNull ELSE JText("summary")
        authors == IF shape = "authors_null" THEN JNull ELSE JArray(<<>>)
    IN  IF shape = "abstract_absent"
        THEN [authors |-> authors] @@ rest
        ELSE [abstract |-> abstract, authors |-> authors] @@ rest

CandidateLists ==
    UNION {{[i \in 1..n |-> CandidatePaper(i, shapes[i])] : shapes \in [1..n -> PaperShapes]}
               : n \in 0..MaxPapers}

\* what an LLM may put under the three top-level keys of its ranking answer
RankIndexElements ==
    {JNumber(n) : n \in (0 - MaxPapers - 1)..MaxPapers} \cup {JText("0")}
RankedIndicesValues ==
    {JNumber(0), JString(<<"1", "0">>)} \cup {JArray(a) : a \in SeqsUpTo(RankIndexElements, MaxRankLen)}
RelevanceScoresValues ==
    { JArray(<<>>),
      JObject(<<>>),
      JObject("0" :> JNumber(90)),
      JObject(("0" :> JNumber(150)) @@ ("-1" :> JNumber(10))) }
InsightsValues ==
    { JText("none"),
      JObject(<<>>),
      JObject([key_themes |-> JArray(<<JText("theme")>>)]),
      JObject([confidence_score |-> JFloat(90), key_themes |-> JArray(<<JText("theme")>>)]) }

Absent == [t |-> "absent", v |-> <<>>]
Field(key, value) == IF value = Absent THEN <<>> ELSE key :> value

RankAnalyses ==
    { JObject(Field("ranked_indices", r) @@ Field("relevance_scores", s)
                  @@ Field("insights", n)) :
        r \in RankedIndicesValues \cup {Absent},
        s \in RelevanceScoresValues \cup {Absent},
        n \in InsightsValues \cup {Absent} }

RankResponses ==
    {NotJson, JsonText(JArray(<<>>)), JsonText(MockConnections)}
        \cup {JsonText(a) : a \in RankAnalyses}

\* _analyze_and_rank_papers on its own
InitRank == InitAt("rank", Requests({W_GANs}), {JArray(<<>>)}, CandidateLists)
NextRank == AnalyzeAndRankPapers(RankResponses)
SpecRank == InitRank /\ [][NextRank]_vars

\* _save_search_session on its own: the candidate lists are short, or as long
\* as the cap of the session record and a little longer, and the ranked list
\* is what _analyze_and_rank_papers made of them
SessionCandidateLengths ==
    {0, 1, 2} \cup (SessionCandidateLimit - 1)..(SessionCandidateLimit + MaxOverLimit)
SessionCandidateLists ==
    {[i \in 1..n |-> CandidatePaper(i, "full")] : n \in SessionCandidateLengths}
SessionRankResponses ==
    { NotJson,
      JsonText(JObject(<<>>)),
      JsonText(JObject([ranked_indices |-> JArray(<<JNumber(1), JNumber(0)>>),
                        relevance_scores |-> JObject("1" :> JNumber(90)),
                        insights |-> JObject([confidence_score |-> JFloat(90)])])),
      JsonText(JObject([ranked_indices |->
                            JArray([i \in 1..(MaxSessionPapers + 1) |-> JNumber(i - 1)]),
                        relevance_scores |-> JObject(<<>>),
                        insights |-> JText("none")])) }

InitSave ==
    /\ pc = "save"
    /\ request \in RequestsOf({W_GANs}, 1..MaxSessionPapers)
    /\ strategy_llm = NotJson
    /\ query_strategies = JArray(FallbackStrategies(request.research_question))
    /\ tasks = <<>>
    /\ finished = <<>>
    /\ all_papers \in SessionCandidateLists
    /\ rank_llm \in SessionRankResponses
    /\ ranked_papers = analyze_and_rank_papers(all_papers, rank_llm).value.ranked_papers
    /\ insights = analyze_and_rank_papers(all_papers, rank_llm).value.insights
    /\ sessions = <<>>
    /\ search_response = NoResult
    /\ exception = "none"
    /\ calls = [strategy |-> <<NotJson>>, synthesis |-> <<rank_llm>>, inserts |-> <<>>]
    /\ cancelled_at = "none"
    /\ OthersIdle
NextSave == SaveSearchSession \/ Respond
SpecSave == InitSave /\ [][NextSave]_vars

\* _execute_multi_strategy_search when the API answers with feeds of about
\* StrategyMaxResults entries: the feed of n entries lists the ids 1..n.
\* One strategy of each list reaches the API.
LongFeed(n) == Feed([i \in 1..n |-> i])
LongAnswers ==
    {LongFeed(n) : n \in (StrategyMaxResults - 1)..(StrategyMaxResults + MaxOverLimit)}
        \cup {Timeout}
InitCap ==
    InitAt("search", Requests({W_GANs}),
           {JArray(<<StrategyA>>), JArray(<<StrategyA, NoQuery>>),
            JArray(<<NoQuery, StrategyA>>),
            JArray(<<NoQuery, StrategyA, JString(W_GANs)>>)}, {<<>>})
NextCap == StartSearches \/ CompleteSearch(LongAnswers) \/ MergeResults
SpecCap == InitCap /\ [][NextCap]_vars

\* the context builders: papers whose texts are as long as the caps and a
\* little longer
AbstractTexts ==
    {Text("abstract", SummaryAbstractLimit),
     Text("abstract", SummaryAbstractLimit + MaxOverLimit)}
FullTexts(limit) ==
    {Text("full_text", limit), Text("full_text", limit + MaxOverLimit)}
StoredRows ==
    {NoRow, [id |-> 0], [id |-> 0, full_text |-> JNull],
     [id |-> 0, full_text |-> Text("full_text", 0)]}
        \cup {[id |-> 0, full_text |-> text] : text \in FullTexts(CanvasFullTextLimit)}
CanvasPaper(id, abstract, row) ==
    [id |-> id, title |-> Title(id), abstract |-> abstract,
     authors |-> <<JText("A"), JText("B")>>, year |-> 2020 + id,
     topics |-> <<JText("cs.LG")>>, row |-> row]
CanvasPapers(id) ==
    {CanvasPaper(id, abstract, row) : abstract \in AbstractTexts, row \in StoredRows}
ReviewPaper(id, fields) ==
    [id |-> id, title |-> Title(id), authors |-> <<JText("A")>>, year |-> 2020 + id]
        @@ fields
ReviewPapers(id) ==
    {ReviewPaper(id, Field("abstract", abstract) @@ Field("full_text", full_text)) :
        abstract \in AbstractTexts \cup {Absent},
        full_text \in FullTexts(ReviewFullTextLimit) \cup {Absent, JNull}}
RankedPaper(id, abstract) ==
    [id |-> id, title |-> Title(id), abstract |-> abstract, authors |-> JArray(<<>>)]
\* the lists <<p1, ..., pn>> with pi drawn from Of(i), for n up to MaxDocs
DocumentLists(Of(_)) ==
    UNION {{docs \in [1..n -> UNION {Of(i) : i \in 1..n}] :
               \A i \in 1..n : docs[i] \in Of(i)} : n \in 0..MaxDocs}
\* candidate lists around the limit of the ranking prompt
RankingLists ==
    {[i \in 1..n |-> RankedPaper(i, abstract)] :
        n \in {1, AnalysisLimit, AnalysisLimit + MaxOverLimit},
        abstract \in AbstractTexts \cup {JNull}}
CanvasRequests ==
    {[endpoint |-> "canvas", focus_areas |-> focus_areas,
      analysis_depth |-> "comprehensive", include_methodology_map |-> TRUE,
      include_timeline |-> TRUE, include_research_gaps |-> TRUE,
      include_future_directions |-> TRUE] :
        focus_areas \in {<<>>, <<JText("GANs")>>, <<JText("GANs"), JText("vision")>>}}
ReviewRequests ==
    {[endpoint |-> "review", research_focus |-> JString(W_GANs),
      max_papers |-> max_papers] : max_papers \in 1..MaxDocs}
RankingRequests == {[endpoint |-> "ranking", research_question |-> JString(W_GANs)]}
InitContext ==
    /\ SearchIdle
    /\ LlmIdle
    /\ GraphIdle
    /\ HttpIdle
    /\ papers_with_content = <<>>
    /\ contexts = <<>>
    /\ \/ /\ doc_pc = "canvas_fetch"
          /\ doc_request \in CanvasRequests
          /\ documents \in DocumentLists(CanvasPapers)
       \/ /\ doc_pc = "review"
          /\ doc_request \in ReviewRequests
          /\ documents \in DocumentLists(ReviewPapers)
       \/ /\ doc_pc = "summaries"
          /\ doc_request \in RankingRequests
          /\ documents \in RankingLists
NextContext ==
    GetPapersFullContent \/ PrepareLongContext \/ ReviewContext \/ RankingContext
SpecContext == InitContext /\ [][NextContext]_vars

\* LlamaClient.generate_response on its own: with and without an API key,
\* for a call that raises and for the answers the three blocks tell apart
LlmContents == {NotJson, JsonText(JArray(<<>>))}
LlmCompletionMessages ==
    {NoAttribute, PyNone, PyObject, PyDict(<<>>),
     PyDict([content |-> PyInt]),
     PyDict([content |-> PyDict(<<>>)]),
     PyDict([content |-> PyDict([text |-> PyNone])])}
        \cup {PyDict([content |-> content]) : content \in LlmContents}
        \cup {PyDict([content |-> PyDict([text |-> text])]) : text \in LlmContents}
LlmJsons ==
    {NoAttribute, JsonRaises, JsonReturns(PyObject), JsonReturns(PyList(<<>>)),
     JsonReturns(PyDict(<<>>)), JsonReturns(PyDict([content |-> PyNone])),
     JsonReturns(PyDict([content |-> NotJson])), JsonReturns(NotJson)}
LlmChoices ==
    {NoAttribute, PyNone, PyList(<<>>), PyList(<<PyNone>>), PyList(<<PyDict(<<>>)>>),
     PyList(<<PyObject>>)}
        \cup {PyList(<<content>>) : content \in LlmContents}
LlmApiOutcomes ==
    {ApiError, PyNone}
        \cup {ApiResponse(completion_message, json, choices) :
                 completion_message \in LlmCompletionMessages,
                 json \in LlmJsons,
                 choices \in LlmChoices}
LlmPrompts == {strategy_prompt(W_GANs), strategy_prompt(STR_connections)}
InitLlama ==
    /\ SearchIdle
    /\ DocsIdle
    /\ GraphIdle
    /\ HttpIdle
    /\ llm_client \in BOOLEAN
    /\ llm_prompt \in LlmPrompts
    /\ llm_api \in LlmApiOutcomes
    /\ llm_result = NoResult
NextLlama == GenerateResponseCall
SpecLlama == InitLlama /\ [][NextLlama]_vars

\* _generate_fallback_connections on its own: every list of up to
\* MaxGraphPapers papers with years from GraphYears, and lists about as long
\* as the limit of the graph whose years repeat the three years in turn
GraphYears == {2018, 2020, 2023}
GraphPaper(i, year) == [id |-> i, year |-> year]
ShortGraphLists ==
    UNION {{[i \in 1..n |-> GraphPaper(i, years[i])] : years \in [1..n -> GraphYears]} :
              n \in 0..MaxGraphPapers}
LongGraphLists ==
    {[i \in 1..n |-> GraphPaper(i, 2018 + 2 * (i % 3))] :
        n \in (FallbackGraphLimit - 1)..(FallbackGraphLimit + MaxOverLimit)}
InitGraph ==
    /\ SearchIdle
    /\ DocsIdle
    /\ LlmIdle
    /\ HttpIdle
    /\ kb_papers \in ShortGraphLists \cup LongGraphLists
    /\ connections_graph = NoResult
NextGraph == GenerateFallbackConnections
SpecGraph == InitGraph /\ [][NextGraph]_vars

\* one request to each of the knowledge-base and paper endpoints, for every
\* combination of what the storage backend holds and does
HttpEndpoints ==
    {"create_knowledgebase", "generate_connections", "generate_insights",
     "generate_analytics", "generate_analysis", "schedule_download",
     "save_discovered_paper"}
HttpEnvs ==
    [storage_ok : BOOLEAN, owned : BOOLEAN, has_papers : BOOLEAN,
     created : BOOLEAN, found : BOOLEAN, rest_ok : BOOLEAN]
InitHttp ==
    /\ SearchIdle
    /\ DocsIdle
    /\ LlmIdle
    /\ GraphIdle
    /\ http_endpoint \in HttpEndpoints
    /\ http_env \in HttpEnvs
    /\ http_response = NoResult
NextHttp ==
    \/ CreateKnowledgebase
    \/ GenerateConnections
    \/ GenerateInsights
    \/ GenerateAnalytics
    \/ GenerateAnalysis
    \/ SchedulePaperDownload
    \/ SaveDiscoveredPaper
SpecHttp == InitHttp /\ [][NextHttp]_vars

\* one whole intelligent_search call
PipelineQuestions == {W_GANs, STR_connections}
PipelineStrategyResponses ==
    {NotJson, JsonText(JArray(<<StrategyA, StrategyB>>)), JsonText(MockConnections),
     JsonText(JNumber(7)), ApiError}
PipelineAnswers == {Timeout, HttpError(429), Feed(<<1, 2>>), Feed(<<2, 3>>)}
\* well-formed requests, and requests with an empty question or a
\* max_papers that is not positive
PipelineRequests ==
    RequestsOf(PipelineQuestions, {1, 2})
        \cup RequestsOf({<<>>}, {1}) \cup RequestsOf({W_GANs}, {0, -1})
PipelineRankResponses ==
    { NotJson,
      ApiError,
      JsonText(JObject(<<>>)),
      JsonText(JObject([ranked_indices |-> JArray(<<JNumber(1), JNumber(0)>>),
                        relevance_scores |-> JObject("1" :> JNumber(90)),
                        insights |-> JObject([confidence_score |-> JFloat(90)])])),
      JsonText(JObject([ranked_indices |-> JArray(<<JNumber(0), JNumber(0)>>),
                        relevance_scores |-> JObject(<<>>),
                        insights |-> JText("none")])) }

Init == InitAt("validate", PipelineRequests, {JArray(<<>>)}, {<<>>})
Next ==
    \/ ValidateRequest
    \/ CancelRequest
    \/ RaiseHttpException
    \/ BuildResearchContext
    \/ GenerateQueryStrategies(PipelineStrategyResponses)
    \/ StartSearches
    \/ CompleteSearch(PipelineAnswers)
    \/ MergeResults
    \/ AnalyzeAndRankPapers(PipelineRankResponses)
    \/ SaveSearchSession
    \/ Respond
Spec == Init /\ [][Next]_vars

----------------------------------------------------------------------------
(* Properties of _analyze_and_rank_papers, under SpecRank *)

Ranked == rank_llm # NoResponse
RankReturned == Ranked /\ pc = "save"

\* ranked_papers lists the given papers, each with its own fields unchanged
SamePapersInOrder(ranked, papers) ==
    /\ Len(ranked) = Len(papers)
    /\ \A i \in 1..Len(papers) :
        \A k \in DOMAIN papers[i] : k \in DOMAIN ranked[i] /\ ranked[i][k] = papers[i][k]

HasScore(paper, score) ==
    "relevance_score" \in DOMAIN paper /\ paper.relevance_score = JNumber(score)

\* the degraded result: identity ranking, score 50, confidence 0.5, marker
DegradedResult ==
    /\ SamePapersInOrder(ranked_papers, all_papers)
    /\ \A i \in 1..Len(ranked_papers) : HasScore(ranked_papers[i], 50)
    /\ insights.t = "object"
    /\ "confidence_score" \in DOMAIN insights.v
    /\ insights.v.confidence_score = JFloat(50)
    /\ "key_themes" \in DOMAIN insights.v
    /\ insights.v.key_themes = JArray(<<JText("Unable to analyze")>>)

\* C1: _analyze_and_rank_papers never raises to its caller: for every
\* candidate list and every LLM outcome, the call ends with a (ranked_papers,
\* insights) pair returned, never with an exception.
C1_RankerNeverRaises == [][pc = "rank" => pc' # "raised"]_vars

\* C2: when the LLM answer is not JSON, the ranked list has the length and
\* the order of the input, every paper has relevance_score 50, and the
\* insights' confidence_score is 0.5.
C2_UnparsableGivesScore50 ==
    (RankReturned /\ rank_llm = NotJson) =>
        /\ SamePapersInOrder(ranked_papers, all_papers)
        /\ \A i \in 1..Len(ranked_papers) : HasScore(ranked_papers[i], 50)
        /\ insights.t = "object"
        /\ "confidence_score" \in DOMAIN insights.v
        /\ insights.v.confidence_score = JFloat(50)

MissesTopLevelKey(llm) ==
    /\ llm.kind = "json"
    /\ llm.value.t = "object"
    /\ {"ranked_indices", "relevance_scores", "insights"} \ DOMAIN llm.value.v # {}

\* C3: when the LLM answer is a JSON object without one of ranked_indices,
\* relevance_scores, insights, the result for a non-empty input is the degraded
\* one (identity ranking, score 50, confidence 0.5, the 'Unable to analyze'
\* marker), never an empty ranking or empty insights.
C3_MissingKeyGivesFallback ==
    (RankReturned /\ MissesTopLevelKey(rank_llm) /\ all_papers # <<>>) =>
        /\ DegradedResult
        /\ ranked_papers # <<>>
        /\ insights # JObject(<<>>)

\* an answer with all three keys, integer indices, a score object and an
\* insights object: nothing but the index values can make it invalid
WellFormedAnalysis(llm) ==
    /\ llm.kind = "json"
    /\ llm.value.t = "object"
    /\ {"ranked_indices", "relevance_scores", "insights"} \subseteq DOMAIN llm.value.v
    /\ llm.value.v.ranked_indices.t = "array"
    /\ \A i \in 1..Len(llm.value.v.ranked_indices.v) :
           llm.value.v.ranked_indices.v[i].t = "number"
    /\ llm.value.v.relevance_scores.t = "object"
    /\ llm.value.v.insights.t = "object"

\* the entries of ranked_indices that are indices 0..N-1, in their given order
IndicesInRange(llm, N) ==
    SelectSeq(llm.value.v.ranked_indices.v, LAMBDA idx : idx.v >= 0 /\ idx.v < N)

\* C4: every entry of ranked_indices outside 0..N-1 (negative ones included)
\* is skipped: it adds no paper and triggers no fallback, and the in-range
\* entries are ranked in their given order.
C4_OutOfRangeSkipped ==
    (RankReturned /\ WellFormedAnalysis(rank_llm)) =>
        LET kept == IndicesInRange(rank_llm, Len(all_papers))
        IN  /\ Len(ranked_papers) = Len(kept)
            /\ \A k \in 1..Len(kept) :
                /\ ranked_papers[k].id = all_papers[kept[k].v + 1].id
                /\ "relevance_score" \in DOMAIN ranked_papers[k]
            /\ insights = rank_llm.value.v.insights

\* C20: every paper of the ranked list the ranker returns has a
\* relevance_score between 0 and 100 and a 1-based rank equal to its position
\* in the list, whatever scores the LLM supplies (here: for every answer
\* that has the three keys, indices that all are in 0..N-1, a score object
\* and an insights object; the rank is the number in the paper's
\* llama_reasoning).
C20_ScoreAndRankInRange ==
    (RankReturned /\ WellFormedAnalysis(rank_llm)
         /\ Len(IndicesInRange(rank_llm, Len(all_papers)))
                = Len(rank_llm.value.v.ranked_indices.v)) =>
        \A i \in 1..Len(ranked_papers) :
            /\ "relevance_score" \in DOMAIN ranked_papers[i]
            /\ ranked_papers[i].relevance_score.t = "number"
            /\ ranked_papers[i].relevance_score.v \in 0..100
            /\ "llama_reasoning" \in DOMAIN ranked_papers[i]
            /\ ranked_papers[i].llama_reasoning = i

----------------------------------------------------------------------------
(* Properties of _execute_multi_strategy_search, under SpecSearch *)

Merged == pc \in {"rank", "save", "respond", "done"}

\* the coroutine returned the papers of its search, not the [] of the except
Succeeded(task) ==
    task.done /\ ~SearchWithStrategyBody(task.strategy, task.answer).raised

SuccessfulTasks == {i \in 1..Len(tasks) : Succeeded(tasks[i])}

\* the external ids the search API returned to a coroutine
FeedIds(task) == {task.answer.entries[k] : k \in 1..Len(task.answer.entries)}

DistinctIds == UNION {FeedIds(tasks[i]) : i \in SuccessfulTasks}

CandidateIds == {all_papers[i].id : i \in 1..Len(all_papers)}

\* C5: the merged list holds exactly one paper for each distinct external id
\* returned by a successful strategy search, so that total_candidates is the
\* number of distinct ids (with S strategies of 3 papers each and one id
\* shared by two of them, 3*S - 1).
C5_OnePaperPerId ==
    Merged =>
        /\ \A i, j \in 1..Len(all_papers) : i # j => all_papers[i].id # all_papers[j].id
        /\ CandidateIds = DistinctIds
        /\ Len(all_papers) = Cardinality(DistinctIds)
        /\ search_response.status = "returned" =>
               search_response.total_candidates = Cardinality(DistinctIds)

\* two strategies returned papers, one id is shared by the two, and the
\* response counts the sum of the two feeds less one
C5_Witness ==
    /\ search_response.status = "returned"
    /\ Len(tasks) = 2
    /\ SuccessfulTasks = {1, 2}
    /\ Cardinality(FeedIds(tasks[1])) >= 2
    /\ Injective(tasks[2].answer.entries)
    /\ Cardinality(FeedIds(tasks[1]) \cap FeedIds(tasks[2])) = 1
    /\ search_response.total_candidates =
           Len(tasks[1].answer.entries) + Len(tasks[2].answer.entries) - 1

\* the first strategy, in list order, whose search returned the id
FirstStrategyWith(id) ==
    CHOOSE i \in SuccessfulTasks :
        /\ id \in FeedIds(tasks[i])
        /\ \A j \in SuccessfulTasks : id \in FeedIds(tasks[j]) => i <= j

\* C6: of the papers that several strategies return with the same external
\* id, the merged list keeps the one of the strategy that is earliest in the
\* strategy list, with that strategy's type as discovery_strategy, whatever
\* the order in which the fetches completed: the merged list is determined
\* by the strategy list and the per-strategy results.
C6_EarliestStrategyWins ==
    Merged =>
        /\ \A k \in 1..Len(all_papers) :
            LET first == tasks[FirstStrategyWith(all_papers[k].id)].strategy
            IN  /\ all_papers[k].discovery_strategy = first.v.strategy_type
                /\ all_papers[k].strategy_reasoning = first.v.reasoning
        /\ all_papers =
               Deduplicate(Flatten([i \in 1..Len(tasks) |->
                   search_with_strategy(tasks[i].strategy, tasks[i].answer)]), {})

\* a later strategy completed before an earlier one that returned the same id
C6_Witness ==
    /\ Merged
    /\ \E i, j \in SuccessfulTasks :
        /\ i < j
        /\ FeedIds(tasks[i]) \cap FeedIds(tasks[j]) # {}
        /\ tasks[i].strategy.v.strategy_type # tasks[j].strategy.v.strategy_type
        /\ \E a, b \in 1..Len(finished) : a < b /\ finished[a] = j /\ finished[b] = i

FailedTasks == {i \in 1..Len(tasks) : tasks[i].done /\ ~Succeeded(tasks[i])}

RECURSIVE ResultsOf(_, _)
ResultsOf(i, chosen) ==
    IF i > Len(tasks) THEN <<>>
    ELSE (IF i \in chosen THEN <<tasks[i].result>> ELSE <<>>) \o ResultsOf(i + 1, chosen)

\* C7: a strategy whose search fails contributes zero candidates, and the
\* candidates of every other strategy are still fetched and merged: the
\* result is the merge of the successful strategies' results alone.
C7_FailureIsolated ==
    Merged =>
        /\ \A i \in FailedTasks : tasks[i].result = <<>>
        /\ \A i \in SuccessfulTasks : FeedIds(tasks[i]) \subseteq CandidateIds
        /\ all_papers = Deduplicate(Flatten(ResultsOf(1, SuccessfulTasks)), {})

\* one search timed out or was refused, one strategy record was malformed,
\* and the papers of another strategy are in the merged list
C7_Witness ==
    /\ Merged
    /\ \E i \in FailedTasks : tasks[i].answer.kind = "timeout" \/ tasks[i].answer.status # 200
    /\ \E i \in FailedTasks : tasks[i].answer = NotCalled
    /\ \E i \in SuccessfulTasks : FeedIds(tasks[i]) # {}
    /\ all_papers # <<>>

----------------------------------------------------------------------------
(* Properties of _generate_query_strategies, under SpecStrategies *)

Generated == strategy_llm # NoResponse

IsStrategy(value, query, strategy_type) ==
    /\ value.t = "object"
    /\ {"query", "strategy_type"} \subseteq DOMAIN value.v
    /\ value.v.query = JString(query)
    /\ value.v.strategy_type = JText(strategy_type)

\* C8: for every question (here: every question that is not blank) and every
\* LLM outcome the generator returns between 3 and 5 strategies, one of them
\* the direct strategy whose query is the verbatim question.
C8_ThreeToFiveWithDirect ==
    (Generated /\ split(request.research_question) # <<>>) =>
        /\ query_strategies.t = "array"
        /\ Len(query_strategies.v) \in 3..5
        /\ \E i \in 1..Len(query_strategies.v) :
               IsStrategy(query_strategies.v[i], request.research_question, "direct")

HasStrategyKeys(value) ==
    value.t = "object" /\ {"query", "strategy_type", "reasoning"} \subseteq DOMAIN value.v

\* the LLM answer is not a JSON array of objects with the three keys
InvalidStrategyAnswer(llm) ==
    \/ llm.kind # "json"
    \/ llm.value.t # "array"
    \/ \E i \in 1..Len(llm.value.v) : ~HasStrategyKeys(llm.value.v[i])

\* the fallback list always starts with the direct strategy
IsFallbackList(value, question) ==
    /\ value.t = "array"
    /\ Len(value.v) >= 3
    /\ IsStrategy(value.v[1], question, "direct")

\* C9: when the LLM answer is not valid JSON, is not an array, or has an
\* element without one of query, strategy_type, reasoning, the generator
\* returns the fallback list (of the question, which here is not blank) and
\* nothing of the LLM output.
C9_InvalidAnswerGivesFallback ==
    (Generated /\ InvalidStrategyAnswer(strategy_llm)
         /\ split(request.research_question) # <<>>) =>
        IsFallbackList(query_strategies, request.research_question)

SomeAltTermOccurs(question) ==
    \E i \in 1..Len(alt_terms) : contains(lower(question), alt_terms[i].original)

STR_cat == <<"c", "a", "t", ":">>

\* C10: the fallback list is, with the direct strategy first: for a question
\* of two or more tokens, a methodological '(first) AND (last)' strategy, a
\* broad category-filtered strategy, and an alternative strategy whose query
\* is the (lower-cased) question with one synonym-table term substituted when
\* one occurs in it, and the question unchanged otherwise; for a question of
\* fewer than two tokens, a broad 'cat:cs.AI <question>' strategy and an
\* applied '<question> applications' strategy.
C10_FallbackList ==
    (Generated /\ strategy_llm = NotJson) =>
        LET question == request.research_question
            tokens == split(question)
            list == query_strategies.v
        IN  /\ query_strategies.t = "array"
            /\ IsStrategy(list[1], question, "direct")
            /\ IF Len(tokens) >= 2
               THEN /\ Len(list) = 4
                    /\ IsStrategy(list[2],
                                  <<"(">> \o tokens[1] \o <<")", " ", "A", "N", "D", " ", "(">>
                                      \o tokens[Len(tokens)] \o <<")">>,
                                  "methodological")
                    /\ list[3].v.strategy_type = JText("broad")
                    /\ MatchAt(list[3].v.query.v, STR_cat, 1)
                    /\ list[4].v.strategy_type = JText("alternative")
                    /\ IF SomeAltTermOccurs(question)
                       THEN \E i \in 1..Len(alt_terms) :
                               /\ contains(lower(question), alt_terms[i].original)
                               /\ list[4].v.query =
                                      JString(replace(lower(question), alt_terms[i].original,
                                                      alt_terms[i].alternative))
                       ELSE list[4].v.query = JString(question)
               ELSE /\ Len(list) = 3
                    /\ IsStrategy(list[2], STR_cat_ai \o question, "broad")
                    /\ IsStrategy(list[3], question \o STR_applications, "applied")

\* the fallback ran on a question of several tokens in which a synonym-table
\* term occurs, in capitals, and on one in which none occurs
C10_Witness ==
    /\ Generated
    /\ strategy_llm = NotJson
    /\ Len(split(request.research_question)) >= 2
    /\ SomeAltTermOccurs(request.research_question)
    /\ request.research_question # lower(request.research_question)
    /\ query_strategies.v[4].v.query # JString(request.research_question)

----------------------------------------------------------------------------
(* Properties of intelligent_search, under Spec *)

Returned200 == pc = "done" /\ search_response.status = "returned"

\* the synthesis answer was parsed and applied: ranked_papers is the ranking
\* the LLM gave, not the candidate list of the except branch
RankingExists ==
    rank_llm # NoResponse /\ ~RankBody(all_papers, rank_llm).raised

\* C11: the papers of the response are the first min(max_papers, number of
\* ranked papers) entries of the ranked list, in rank order; when a ranking
\* exists, they follow the ranked_indices of the LLM, not the candidate order.
C11_PapersAreRankedHead ==
    Returned200 =>
        LET n == Min(request.max_papers, Len(ranked_papers))
        IN  /\ Len(search_response.papers) = n
            /\ \A i \in 1..n : search_response.papers[i] = ranked_papers[i]
            /\ RankingExists =>
                   LET kept == SelectSeq(rank_llm.value.v.ranked_indices.v,
                                         LAMBDA idx : idx.v < Len(all_papers))
                   IN  \A i \in 1..n :
                           search_response.papers[i].id = all_papers[kept[i].v + 1].id

\* two papers were ranked in the reverse of the candidate order and
\* max_papers is 1: the response holds the second candidate alone
C11_Witness ==
    /\ Returned200
    /\ RankingExists
    /\ request.max_papers = 1
    /\ Len(ranked_papers) = 2
    /\ Len(search_response.papers) = 1
    /\ search_response.papers[1].id = all_papers[2].id
    /\ search_response.papers[1].id # all_papers[1].id

\* the chat-completions call of the synthesis step raised
SynthesisCallRaised == calls.synthesis = <<ApiError>>

InsertFailed == calls.inserts = <<"failed">>

\* C13: a failed insert in _save_search_session is swallowed: the step leaves
\* no exception and changes nothing that the response is computed from, and
\* the call goes on to return the response made of the ranked papers, the
\* candidate count, the strategies, the insights and their confidence_score,
\* as it does when the insert succeeds.
C13_SaveFailureSwallowed ==
    /\ [][pc = "save" =>
              /\ pc' \in {"save", "respond"}
              /\ exception' = exception
              /\ search_response' = search_response
              /\ <<request, query_strategies, all_papers, ranked_papers, insights>>'
                     = <<request, query_strategies, all_papers, ranked_papers, insights>>]_vars
    /\ []((InsertFailed /\ pc = "done") =>
              /\ sessions = <<>>
              /\ search_response.status = "returned"
              /\ search_response.papers = Prefix(ranked_papers, request.max_papers)
              /\ search_response.total_candidates = Len(all_papers)
              /\ search_response.query_strategies = query_strategies
              /\ search_response.research_insights = insights
              /\ search_response.confidence_score =
                     Get(insights.v, "confidence_score", JFloat(DefaultResponseConfidence)))

\* the insert failed, no row was written, and the response with its papers
\* was returned
C13_Witness ==
    /\ InsertFailed
    /\ sessions = <<>>
    /\ Returned200
    /\ search_response.papers # <<>>

MalformedRequest == request.research_question = <<>> \/ request.max_papers <= 0

\* C14: a request with an empty research question or with max_papers <= 0
\* is rejected: it never enters the pipeline, and it causes no search-API
\* call, no LLM call and no session write.
C14_MalformedRejected ==
    MalformedRequest =>
        /\ pc \in {"validate", "rejected"}
        /\ pc = "rejected" => search_response = Rejected
        /\ calls = NoCalls
        /\ strategy_llm = NoResponse /\ rank_llm = NoResponse
        /\ tasks = <<>>
        /\ sessions = <<>>

\* a request with max_papers <= 0 was rejected
C14_Witness ==
    /\ pc = "rejected"
    /\ search_response = Rejected
    /\ request.max_papers <= 0
    /\ request.research_question # <<>>

\* C16: once the request is cancelled during strategy generation, during a
\* per-strategy fetch or during the synthesis call, the pipeline stops: from
\* then on no record is inserted into intelligent_search_sessions.
C16_CancelledNeverPersists ==
    [][(cancelled_at \in {"strategies", "gather", "rank"}) =>
           (sessions' = sessions /\ pc' \notin {"save", "respond", "done"})]_vars

\* C17: the per-strategy results are merged only when every fetch has
\* completed or failed; the synthesis call is made after that merge, on the
\* merged list, while no fetch is running, and no fetch runs after it; a
\* search makes at most one synthesis call, and exactly one when it goes on
\* to the session write.
C17_FanInThenOneSynthesis ==
    /\ [][(pc = "gather" /\ pc' = "rank") =>
              (AllFetchesDone(tasks) /\ tasks' = tasks
                  /\ all_papers' = MergeStrategyResults(tasks, finished))]_vars
    /\ [][(calls.synthesis' # calls.synthesis) =>
              (pc = "rank" /\ calls.synthesis = <<>> /\ AllFetchesDone(tasks)
                  /\ tasks' = tasks /\ all_papers' = all_papers)]_vars
    /\ [][(calls.synthesis # <<>>) => tasks' = tasks]_vars
    /\ [](Len(calls.synthesis) <= 1)
    /\ [](pc \in {"save", "respond", "done"} => Len(calls.synthesis) = 1)

\* two fetches reached the search API, the second completed first, and the
\* one synthesis call was made on their merged papers
C17_Witness ==
    /\ Returned200
    /\ Len(tasks) = 2
    /\ \A i \in 1..2 : tasks[i].requests = 1
    /\ finished = <<2, 1>>
    /\ Len(calls.synthesis) = 1
    /\ all_papers # <<>>

\* C18: for a well-formed request, intelligent_search returns a response
\* whatever dependency fails and whatever the LLM answers: no exception
\* leaves it and the caller gets no error.
C18_WellFormedAlwaysSucceeds ==
    ~MalformedRequest =>
        /\ pc \notin {"raised", "failed"}
        /\ exception \in {"none", "CancelledError"}
        /\ search_response.status \in {"none", "returned"}

----------------------------------------------------------------------------
(* Properties of ArxivService.search, under SpecSearch *)

\* the first GET of the search call of a coroutine was answered 429
RateLimited(task) == task.done /\ task.answer.kind = "http" /\ task.answer.status = 429

\* C15: when the first GET of a search call is answered 429, the call issues
\* exactly one retry, and returns the parsed papers of the retry when it
\* succeeds; no search call issues more than two GETs.
C15_SingleRetryOn429 ==
    \A i \in 1..Len(tasks) :
        /\ tasks[i].requests <= 2
        /\ RateLimited(tasks[i]) =>
               /\ tasks[i].requests = 2
               /\ ("retry" \in DOMAIN tasks[i].answer
                       /\ tasks[i].answer.retry.well_formed
                       /\ "reasoning" \in DOMAIN tasks[i].strategy.v) =>
                      /\ Len(tasks[i].result) = Len(tasks[i].answer.retry.entries)
                      /\ \A k \in 1..Len(tasks[i].result) :
                             tasks[i].result[k].id = tasks[i].answer.retry.entries[k]

----------------------------------------------------------------------------
(* Properties of _save_search_session, under SpecSave *)

\* rows lists the first n entries of papers, in order
FirstOf(rows, papers, n) ==
    /\ Len(rows) = Min(n, Len(papers))
    /\ \A i \in 1..Len(rows) : rows[i].title = papers[i].title

\* C19: the session record holds at most 100 candidate entries, the first
\* 100 of the merged candidates in order, and at most max_papers ranked
\* entries, the first max_papers of the ranked list in order.
C19_SessionListsCapped ==
    \A k \in 1..Len(sessions) :
        /\ Len(sessions[k].candidate_papers) <= 100
        /\ FirstOf(sessions[k].candidate_papers, all_papers, 100)
        /\ Len(sessions[k].ranked_papers) <= request.max_papers
        /\ FirstOf(sessions[k].ranked_papers, ranked_papers, request.max_papers)

\* a session was written for more than 100 candidates and more ranked papers
\* than max_papers
C19_Witness ==
    /\ Len(sessions) = 1
    /\ Len(all_papers) > 100
    /\ Len(sessions[1].candidate_papers) = 100
    /\ Len(ranked_papers) > request.max_papers
    /\ Len(sessions[1].ranked_papers) = request.max_papers

----------------------------------------------------------------------------
(* Properties of search_with_strategy, under SpecCap *)

\* C21: no strategy contributes more than 100 candidates to the merge,
\* whatever number of entries the search API returns for its query.
C21_PerStrategyCap ==
    \A i \in 1..Len(tasks) :
        tasks[i].done => Len(tasks[i].result) <= StrategyMaxResults

----------------------------------------------------------------------------
(* Properties of the LLM contexts, under SpecContext *)

\* the piece that opens the block of one paper in a context
PaperHeaders == {JText("\n--- PAPER "), JText("\nPaper ")}
HeaderPositions(context) == {k \in 1..Len(context) : context[k] \in PaperHeaders}

\* what a context says before its first paper
Preamble(context) ==
    IF HeaderPositions(context) = {} THEN context
    ELSE SubSeq(context, 1,
                (CHOOSE k \in HeaderPositions(context) :
                    \A j \in HeaderPositions(context) : k <= j) - 1)

\* the titles of the papers of a context, in the order of their blocks; the
\* title is the third piece after the header
ListedTitles(context) ==
    SelectSeq([k \in 1..Len(context) |->
                  IF k > 3 /\ context[k - 3] \in PaperHeaders THEN context[k] ELSE Absent],
              LAMBDA piece : piece # Absent)

\* the papers a context is built from and the focus it is built for
ContextPapers ==
    IF doc_request.endpoint = "canvas" THEN papers_with_content
    ELSE Prefix(documents, doc_request.max_papers)
ContextFocus ==
    IF doc_request.endpoint = "canvas" THEN doc_request.focus_areas
    ELSE <<doc_request.research_focus>>

\* the papers of a context are its input papers, in input order
ListedInInputOrder(context) ==
    ListedTitles(context) = [i \in 1..Len(ContextPapers) |-> ContextPapers[i].title]

Occurs(piece, pieces) == \E k \in 1..Len(pieces) : pieces[k] = piece

\* C22: every context built for the canvas or the literature review begins
\* with a preamble that states the number of documents and the research
\* focus, and lists the documents after it in input order.
C22_PreambleThenDocuments ==
    doc_request.endpoint \in {"canvas", "review"} =>
        \A c \in 1..Len(contexts) :
            /\ Occurs(JNumber(Len(ContextPapers)), Preamble(contexts[c]))
            /\ \A f \in 1..Len(ContextFocus) :
                   Occurs(ContextFocus[f], Preamble(contexts[c]))
            /\ ListedInInputOrder(contexts[c])

\* the long texts of the given source that a context carries
TextsOf(context, src) ==
    {context[k].v : k \in {j \in 1..Len(context) :
                               context[j].t = "text" /\ context[j].v.src = src}}

\* the cap the call site puts on a paper's full text
FullTextCap ==
    IF doc_request.endpoint = "review" THEN ReviewFullTextLimit ELSE CanvasFullTextLimit

\* the full texts and the number of summarised papers stay within their caps
FullTextsAndSummariesCapped(context) ==
    /\ \A text \in TextsOf(context, "full_text") : text.len <= FullTextCap
    /\ doc_request.endpoint = "ranking" => Len(context) <= 3 * AnalysisLimit

\* C23: in every assembled context each document contributes at most 500
\* characters of abstract and at most the call site's cap of full text
\* (5000 for the review, 30000 for the canvas), and the ranking prompt
\* summarises at most 50 papers.
C23_PerDocumentCaps ==
    \A c \in 1..Len(contexts) :
        /\ \A text \in TextsOf(contexts[c], "abstract") :
               text.len <= SummaryAbstractLimit
        /\ FullTextsAndSummariesCapped(contexts[c])

----------------------------------------------------------------------------
(* Properties of LlamaClient.generate_response, under SpecLlama *)

LlmCalled == llm_result # NoResult
ReturnedMock ==
    /\ ~llm_result.result.raised
    /\ llm_result.result.value = mock_response(llm_prompt)

\* the answer has none of the three shapes generate_response reads: no
\* completion_message, no json method and no choices
UnexpectedShape(api) ==
    \/ api.kind = "none"
    \/ /\ api.kind = "response"
       /\ ~Truthy(api.completion_message)
       /\ api.json.kind = "absent"
       /\ ~Truthy(api.choices)

\* C25: generate_response always returns a str and never raises; without an
\* API key it returns the mock response without calling the API, and when
\* the call raises or answers in an unexpected shape it returns the mock
\* response for the prompt.
C25_AlwaysAString ==
    LlmCalled =>
        /\ ~llm_result.result.raised
        /\ IsStr(llm_result.result.value)
        /\ ~llm_client => (ReturnedMock /\ llm_result.api_calls = 0)
        /\ (llm_client /\ (llm_api.kind = "error" \/ UnexpectedShape(llm_api)))
               => ReturnedMock

\* with an API key, the answer has no attribute choices and nothing else that
\* generate_response can read: the AttributeError is caught
C25_Witness ==
    /\ LlmCalled
    /\ llm_client
    /\ llm_api.kind = "response"
    /\ llm_api.choices = NoAttribute
    /\ llm_api.json = JsonRaises
    /\ llm_api.completion_message = PyNone
    /\ ReturnedMock
    /\ llm_result.api_calls = 1

----------------------------------------------------------------------------
(* Properties of the session record and the response, under SpecSave *)

\* the search returned a response and its session record was written
RespondedAndSaved ==
    /\ pc = "done"
    /\ search_response.status = "returned"
    /\ sessions # <<>>

\* C26: the confidence_score stored in the session record equals the
\* confidence_score returned in the response, for every insights object the
\* ranker can return, also one without a confidence_score key.
C26_SameConfidence ==
    RespondedAndSaved =>
        sessions[Len(sessions)].confidence_score = search_response.confidence_score

----------------------------------------------------------------------------
(* Further properties of _analyze_and_rank_papers, under SpecRank *)

\* the ranking answer was applied, and all its indices are indices 0..N-1
RankedFromValidIndices ==
    /\ RankReturned
    /\ WellFormedAnalysis(rank_llm)
    /\ Len(IndicesInRange(rank_llm, Len(all_papers)))
           = Len(rank_llm.value.v.ranked_indices.v)

\* C27: on the success path the ranked list is a duplicate-free selection of
\* the candidates: each candidate appears at most once, so the ranked list
\* is never longer than the candidate list, even when ranked_indices
\* repeats an index.
C27_RankedWithoutDuplicates ==
    RankedFromValidIndices =>
        /\ \A i, j \in 1..Len(ranked_papers) :
               ranked_papers[i].id = ranked_papers[j].id => i = j
        /\ Len(ranked_papers) <= Len(all_papers)

----------------------------------------------------------------------------
(* Further properties of _save_search_session, under SpecSearch *)

\* the rows of a session list carry the deduplication keys of the papers
\* they were made of
CarryIds(rows, papers) ==
    \A i \in 1..Len(rows) :
        rows[i].paper_id # NoneId /\ rows[i].paper_id = PaperId(papers[i])

\* C28: every candidate and ranked entry written to the session record
\* carries, as its paper_id, the non-null external id that
\* _execute_multi_strategy_search used as the deduplication key of the paper.
C28_SessionCarriesIds ==
    \A s \in 1..Len(sessions) :
        /\ CarryIds(sessions[s].candidate_papers, all_papers)
        /\ CarryIds(sessions[s].ranked_papers, ranked_papers)

----------------------------------------------------------------------------
(* Properties of _generate_fallback_connections, under SpecGraph *)

GraphReturned == connections_graph # NoResult

\* the edges of the graph that join the two nodes, in either direction
EdgesBetween(graph, a, b) ==
    {k \in 1..Len(graph.edges) :
        \/ graph.edges[k].source = a.id /\ graph.edges[k].target = b.id
        \/ graph.edges[k].source = b.id /\ graph.edges[k].target = a.id}

\* the edges of the graph that touch the node
IncidentEdges(graph, a) ==
    {k \in 1..Len(graph.edges) :
        graph.edges[k].source = a.id \/ graph.edges[k].target = a.id}

\* two nodes are joined by exactly one edge iff their years differ by at
\* most 2, and by none otherwise
EdgesFollowYears(graph) ==
    \A i, j \in 1..Len(graph.nodes) :
        i < j =>
            Cardinality(EdgesBetween(graph, graph.nodes[i], graph.nodes[j]))
                = IF Abs(graph.nodes[i].year - graph.nodes[j].year) <= YearWindow
                  THEN 1 ELSE 0

\* C29: in the fallback graph two nodes are joined by exactly one edge iff
\* their years differ by at most 2, each node's connections field equals
\* the number of edges incident to it, and stats.totalConnections equals
\* the number of edges.
C29_FallbackGraphConsistent ==
    GraphReturned =>
        /\ EdgesFollowYears(connections_graph)
        /\ \A i \in 1..Len(connections_graph.nodes) :
               connections_graph.nodes[i].connections
                   = Cardinality(IncidentEdges(connections_graph,
                                               connections_graph.nodes[i]))
        /\ connections_graph.stats.totalConnections = Len(connections_graph.edges)

----------------------------------------------------------------------------
(* Properties of the knowledge-base and paper endpoints, under SpecHttp *)

\* the endpoints C30 is about
StatusKeepingEndpoints ==
    {"create_knowledgebase", "generate_connections", "generate_insights",
     "generate_analytics", "schedule_download", "save_discovered_paper"}

\* C30: when a handler itself decides on an HTTP error status (403, 404,
\* 400), the caller receives that status and not a 500.
C30_DecidedStatusDelivered ==
    (/\ http_endpoint \in StatusKeepingEndpoints
     /\ http_response # NoResult
     /\ http_response.decided \in {400, 403, 404}) =>
        http_response.status_code = http_response.decided

====
